---- MODULE Spec2Model ----
(***************************************************************************)
(* Water-bottle sorting game (src/water_bottle_game.go).                   *)
(*                                                                         *)
(* The game object is the record g, one field per field of                 *)
(* WaterBottleGame.  Go slices are 0-based, TLA+ sequences 1-based: the    *)
(* container with Go index i is g.bottles[i+1] (i < N) or g.jars[i-N+1].   *)
(* Container indices in operation arguments, in the log and in ret are the *)
(* Go indices.  A colour is the integer the code uses; -1 is "no bag".     *)
(***************************************************************************)
EXTENDS Integers, Sequences, FiniteSets, TLC

VARIABLES g, args, pc, ret, target, step, actualSteps, search, mem

vars == <<g, args, pc, ret, target, step, actualSteps, search, mem>>

(***************************************************************************)
(* Bounds of the model                                                     *)
(***************************************************************************)
MaxN == 3
MaxM == 2
MaxK == 2
MaxJars == 1
MaxJarCap == 1
MaxSteps == 2
MaxDrift == 1
SearchN == 5
MaxFill == 4
maxBottles == 30

UserOperation == 0
InternalOperation == 1
NoBag == -1
BagSlots == 3

Min(a, b) == IF a < b THEN a ELSE b

(***************************************************************************)
(* Sequence helpers                                                        *)
(***************************************************************************)
Repeat(c, n) == [i \in 1..n |-> c]

Top(b) == b[Len(b)]

Range(s) == {s[i] : i \in 1..Len(s)}

RECURSIVE SumLen(_)
SumLen(s) == IF s = <<>> THEN 0 ELSE Len(Head(s)) + SumLen(Tail(s))

CountEmpty(s) == Cardinality({i \in 1..Len(s) : Len(s[i]) = 0})

(***************************************************************************)
(* isSingleColor                                                           *)
(***************************************************************************)
isSingleColor(bottle) ==
    IF Len(bottle) = 0 THEN TRUE
    ELSE \A i \in 1..Len(bottle) : bottle[i] = bottle[1]

(***************************************************************************)
(* NewWaterBottleGame: the parameter checks and the object it builds       *)
(***************************************************************************)
NewGameError(N, M, J, K, JarCount, JarCapacity) ==
    \/ N <= J
    \/ K <= 0
    \/ M <= 0
    \/ JarCount < 0
    \/ (JarCount > 0 /\ JarCapacity <= 0)
    \/ ((N - J) * M) % M # 0

NoGame ==
    [bottles |-> <<>>, jars |-> <<>>, bags |-> <<>>, collectedBottles |-> <<>>,
     N |-> 0, M |-> 0, J |-> 0, K |-> 0, JarCount |-> 0, JarCapacity |-> 0,
     UseBags |-> FALSE, emptyCount |-> 0, emptyJarCount |-> 0,
     reverseSteps |-> <<>>]

\* colours present in non-collected bottles and in jars (a set: the code
\* returns them in the iteration order of a Go map, which is unspecified)
getAvailableColors(gm) ==
    UNION {Range(gm.bottles[i]) :
            i \in {b \in 1..Len(gm.bottles) :
                     ~(gm.UseBags /\ gm.collectedBottles[b])}}
    \cup
    UNION {Range(gm.jars[i]) : i \in 1..Len(gm.jars)}

\* the orders in which getAvailableColors can return a set of colours
Orderings(S) ==
    {s \in [1..Cardinality(S) -> S] : \A i, j \in 1..Cardinality(S) : s[i] = s[j] => i = j}

initializeBags(gm) ==
    {[gm EXCEPT !.bags = [i \in 1..BagSlots |->
                            IF i <= Len(o) THEN o[i] ELSE NoBag]] :
        o \in Orderings(getAvailableColors(gm))}

NewWaterBottleGame(N, M, J, K, JarCount, JarCapacity, UseBags) ==
    LET game == [bottles |-> Repeat(<<>>, N),
                 jars |-> Repeat(<<>>, JarCount),
                 bags |-> Repeat(0, BagSlots),
                 collectedBottles |-> Repeat(FALSE, N),
                 N |-> N, M |-> M, J |-> J, K |-> K,
                 JarCount |-> JarCount, JarCapacity |-> JarCapacity,
                 UseBags |-> UseBags,
                 emptyCount |-> J, emptyJarCount |-> JarCount,
                 reverseSteps |-> <<>>]
    IN  IF UseBags THEN initializeBags(game) ELSE {game}

(***************************************************************************)
(* Containers by Go index                                                  *)
(***************************************************************************)
Container(gm, c) ==
    IF c < gm.N THEN gm.bottles[c + 1] ELSE gm.jars[c - gm.N + 1]

Capacity(gm, c) == IF c < gm.N THEN gm.M ELSE gm.JarCapacity

SetContainer(gm, c, b) ==
    IF c < gm.N THEN [gm EXCEPT !.bottles[c + 1] = b]
    ELSE [gm EXCEPT !.jars[c - gm.N + 1] = b]

\* the loop of lines 788-794: the number of consecutive units of the top
\* colour at the top of a non-empty bottle
RECURSIVE scanTop(_, _, _)
scanTop(b, fromIndex, topColor) ==
    IF fromIndex >= 1 /\ b[fromIndex] = topColor
    THEN scanTop(b, fromIndex - 1, topColor)
    ELSE fromIndex

availableAmount(b) == Len(b) - scanTop(b, Len(b), Top(b))

(***************************************************************************)
(* updateBagColorsWithoutCollection, getTotalWaterUnits                    *)
(***************************************************************************)
getTotalWaterUnits(gm) ==
    SumLen([i \in 1..Len(gm.bottles) |->
              IF gm.UseBags /\ gm.collectedBottles[i] THEN <<>> ELSE gm.bottles[i]])
    + SumLen(gm.jars)

\* the bags without the limit by the water that is left
updateBagColorsNoWaterLimit(gm) ==
    LET avail == getAvailableColors(gm)
        maxBags == Min(BagSlots, Cardinality(avail))
    IN  {[gm EXCEPT !.bags = [i \in 1..BagSlots |->
                                IF i <= maxBags THEN o[i] ELSE NoBag]] :
            o \in Orderings(avail)}

updateBagColors(gm) ==
    LET avail == getAvailableColors(gm)
        maxBagsByWater == getTotalWaterUnits(gm) \div gm.M
        maxBags == Min(BagSlots, Min(Cardinality(avail), maxBagsByWater))
    IN  {[gm EXCEPT !.bags = [i \in 1..BagSlots |->
                                IF i <= maxBags THEN o[i] ELSE NoBag]] :
            o \in Orderings(avail)}

(***************************************************************************)
(* checkAndCollectBottles                                                  *)
(***************************************************************************)
\* step 1 without the test that the full bottle holds one colour
collectableBottlesFullOnly(gm) ==
    {i \in 1..Len(gm.bottles) :
        /\ ~gm.collectedBottles[i]
        /\ Len(gm.bottles[i]) = gm.M
        /\ \E bagIdx \in 1..BagSlots :
              gm.bags[bagIdx] >= 0 /\ gm.bags[bagIdx] = gm.bottles[i][1]}

\* step 1 of a pass: the bottles the current bags collect
collectableBottles(gm) ==
    {i \in 1..Len(gm.bottles) :
        /\ ~gm.collectedBottles[i]
        /\ Len(gm.bottles[i]) = gm.M
        /\ isSingleColor(gm.bottles[i])
        /\ \E bagIdx \in 1..BagSlots :
              gm.bags[bagIdx] >= 0 /\ gm.bags[bagIdx] = gm.bottles[i][1]}

\* step 2 of a pass: mark them collected and clear them
collectBottles(gm) ==
    LET cb == collectableBottles(gm)
    IN  [gm EXCEPT
           !.collectedBottles = [i \in 1..Len(gm.collectedBottles) |->
                                   gm.collectedBottles[i] \/ i \in cb],
           !.bottles = [i \in 1..Len(gm.bottles) |->
                          IF i \in cb THEN <<>> ELSE gm.bottles[i]]]

\* a pass that collects and leaves the bags as they are
collectPassKeepsBags(gm) ==
    {[g |-> collectBottles(gm), done |-> collectableBottles(gm) = {}]}

\* one pass of the loop: the states it can leave, and whether it was the last
collectPass(gm) ==
    {[g |-> h,
      done |-> collectableBottles(gm) = {} /\ h.bags = gm.bags] :
        h \in updateBagColors(collectBottles(gm))}

\* the states the loop can be in at the start of a pass
RECURSIVE passStates(_, _)
passStates(frontier, seen) ==
    IF frontier = {} THEN seen
    ELSE LET next == {r.g : r \in {q \in UNION {collectPass(h) : h \in frontier} :
                                     ~q.done}}
         IN  passStates(next \ (seen \cup frontier), seen \cup frontier)

\* the states checkAndCollectBottles can return in
checkAndCollectBottles(gm) ==
    IF ~gm.UseBags THEN {gm}
    ELSE {r.g : r \in {q \in UNION {collectPass(h) : h \in passStates({gm}, {})} :
                         q.done}}

(***************************************************************************)
(* pourWithType                                                            *)
(***************************************************************************)
\* the checks without the comparison of the two top colours
pourRejectionNoColor(gm, fromContainer, toContainer) ==
    LET totalContainers == gm.N + gm.JarCount
    IN  IF \/ fromContainer < 0 \/ fromContainer >= totalContainers
           \/ toContainer < 0 \/ toContainer >= totalContainers
        THEN "invalid index"
        ELSE IF fromContainer = toContainer THEN "same container"
        ELSE IF /\ gm.UseBags
                /\ \/ (fromContainer < gm.N /\ gm.collectedBottles[fromContainer + 1])
                   \/ (toContainer < gm.N /\ gm.collectedBottles[toContainer + 1])
        THEN "collected bottle"
        ELSE IF Len(Container(gm, fromContainer)) = 0 THEN "source empty"
        ELSE IF Len(Container(gm, toContainer)) >= Capacity(gm, toContainer)
        THEN "target full"
        ELSE "none"

\* the checks without the test of the retired flags
pourRejectionIgnoresCollected(gm, fromContainer, toContainer) ==
    LET totalContainers == gm.N + gm.JarCount
    IN  IF \/ fromContainer < 0 \/ fromContainer >= totalContainers
           \/ toContainer < 0 \/ toContainer >= totalContainers
        THEN "invalid index"
        ELSE IF fromContainer = toContainer THEN "same container"
        ELSE IF Len(Container(gm, fromContainer)) = 0 THEN "source empty"
        ELSE IF Len(Container(gm, toContainer)) >= Capacity(gm, toContainer)
        THEN "target full"
        ELSE IF /\ Len(Container(gm, toContainer)) > 0
                /\ Top(Container(gm, toContainer)) # Top(Container(gm, fromContainer))
        THEN "color mismatch"
        ELSE "none"

\* the checks of lines 728-785, in the order the code makes them
pourRejection(gm, fromContainer, toContainer) ==
    LET totalContainers == gm.N + gm.JarCount
    IN  IF \/ fromContainer < 0 \/ fromContainer >= totalContainers
           \/ toContainer < 0 \/ toContainer >= totalContainers
        THEN "invalid index"
        ELSE IF fromContainer = toContainer THEN "same container"
        ELSE IF /\ gm.UseBags
                /\ \/ (fromContainer < gm.N /\ gm.collectedBottles[fromContainer + 1])
                   \/ (toContainer < gm.N /\ gm.collectedBottles[toContainer + 1])
        THEN "collected bottle"
        ELSE IF Len(Container(gm, fromContainer)) = 0 THEN "source empty"
        ELSE IF Len(Container(gm, toContainer)) >= Capacity(gm, toContainer)
        THEN "target full"
        ELSE IF /\ Len(Container(gm, toContainer)) > 0
                /\ Top(Container(gm, toContainer)) # Top(Container(gm, fromContainer))
        THEN "color mismatch"
        ELSE "none"

\* the whole top block, whatever room the destination has
pourAmountWholeRun(gm, fromContainer, toContainer) ==
    availableAmount(Container(gm, fromContainer))

\* lines 787-796
pourAmount(gm, fromContainer, toContainer) ==
    Min(availableAmount(Container(gm, fromContainer)),
        Capacity(gm, toContainer) - Len(Container(gm, toContainer)))

\* transfer that appends to the destination and leaves the source as it was
transferNoTruncate(gm, fromContainer, toContainer, amount) ==
    LET from == Container(gm, fromContainer)
        to == Container(gm, toContainer)
    IN  SetContainer(gm, toContainer, to \o Repeat(Top(from), amount))

\* lines 802-835: the transfer and the update of the empty counters; the
\* code tests the source's length against pourAmount after shortening it
transfer(gm, fromContainer, toContainer, amount) ==
    LET from == Container(gm, fromContainer)
        to == Container(gm, toContainer)
        to2 == to \o Repeat(Top(from), amount)
        from2 == SubSeq(from, 1, Len(from) - amount)
        wasFromEmpty == Len(from2) = amount
        wasToEmpty == Len(to2) = amount
        g1 == SetContainer(SetContainer(gm, toContainer, to2), fromContainer, from2)
        dEmpty == (IF fromContainer < gm.N /\ wasFromEmpty THEN 1 ELSE 0)
                  - (IF toContainer < gm.N /\ wasToEmpty THEN 1 ELSE 0)
        dEmptyJar == (IF fromContainer >= gm.N /\ wasFromEmpty THEN 1 ELSE 0)
                     - (IF toContainer >= gm.N /\ wasToEmpty THEN 1 ELSE 0)
    IN  [g1 EXCEPT !.emptyCount = @ + dEmpty, !.emptyJarCount = @ + dEmptyJar]

\* a call that compares the top colours only after the transfer
pourWithTypeLateColorCheck(gm, fromContainer, toContainer, opType) ==
    IF pourRejectionNoColor(gm, fromContainer, toContainer) # "none"
    THEN {[ok |-> FALSE, moved |-> 0, g |-> gm]}
    ELSE LET amount == pourAmount(gm, fromContainer, toContainer)
             g1 == transfer(gm, fromContainer, toContainer, amount)
         IN  IF pourRejection(gm, fromContainer, toContainer) # "none"
             THEN {[ok |-> FALSE, moved |-> 0, g |-> g1]}
             ELSE IF gm.UseBags /\ opType = UserOperation
             THEN {[ok |-> TRUE, moved |-> amount, g |-> h] :
                      h \in checkAndCollectBottles(g1)}
             ELSE {[ok |-> TRUE, moved |-> amount, g |-> g1]}

\* a call with the test of the operation type inverted: the collection step
\* runs for internal pours and not for user pours
pourWithTypeCollectsInternalOnly(gm, fromContainer, toContainer, opType) ==
    IF pourRejection(gm, fromContainer, toContainer) # "none"
    THEN {[ok |-> FALSE, moved |-> 0, g |-> gm]}
    ELSE LET amount == pourAmount(gm, fromContainer, toContainer)
         IN  IF amount <= 0 THEN {[ok |-> FALSE, moved |-> 0, g |-> gm]}
             ELSE LET g1 == transfer(gm, fromContainer, toContainer, amount)
                  IN  IF gm.UseBags /\ opType # UserOperation
                      THEN {[ok |-> TRUE, moved |-> amount, g |-> h] :
                               h \in checkAndCollectBottles(g1)}
                      ELSE {[ok |-> TRUE, moved |-> amount, g |-> g1]}

\* a call that runs the collection step whatever the operation type
pourWithTypeAlwaysCollects(gm, fromContainer, toContainer, opType) ==
    IF pourRejection(gm, fromContainer, toContainer) # "none"
    THEN {[ok |-> FALSE, moved |-> 0, g |-> gm]}
    ELSE LET amount == pourAmount(gm, fromContainer, toContainer)
         IN  IF amount <= 0 THEN {[ok |-> FALSE, moved |-> 0, g |-> gm]}
             ELSE LET g1 == transfer(gm, fromContainer, toContainer, amount)
                  IN  IF gm.UseBags
                      THEN {[ok |-> TRUE, moved |-> amount, g |-> h] :
                               h \in checkAndCollectBottles(g1)}
                      ELSE {[ok |-> TRUE, moved |-> amount, g |-> g1]}

\* the results (success, moved, state) a call can have: one for an internal
\* pour, one per outcome of the collection loop for a user pour in bag mode
pourWithType(gm, fromContainer, toContainer, opType) ==
    IF pourRejection(gm, fromContainer, toContainer) # "none"
    THEN {[ok |-> FALSE, moved |-> 0, g |-> gm]}
    ELSE LET amount == pourAmount(gm, fromContainer, toContainer)
         IN  IF amount <= 0 THEN {[ok |-> FALSE, moved |-> 0, g |-> gm]}
             ELSE LET g1 == transfer(gm, fromContainer, toContainer, amount)
                  IN  IF gm.UseBags /\ opType = UserOperation
                      THEN {[ok |-> TRUE, moved |-> amount, g |-> h] :
                               h \in checkAndCollectBottles(g1)}
                      ELSE {[ok |-> TRUE, moved |-> amount, g |-> g1]}

pourInternal(gm, fromContainer, toContainer) ==
    CHOOSE r \in pourWithType(gm, fromContainer, toContainer, InternalOperation) : TRUE

(***************************************************************************)
(* GetPourFailureReason                                                    *)
(***************************************************************************)
\* the report with the full destination looked at before the empty source
GetPourFailureReasonFullFirst(gm, fromContainer, toContainer) ==
    LET totalContainers == gm.N + gm.JarCount
    IN  IF \/ fromContainer < 0 \/ fromContainer >= totalContainers
           \/ toContainer < 0 \/ toContainer >= totalContainers
        THEN "invalid index"
        ELSE IF fromContainer = toContainer THEN "same container"
        ELSE IF /\ gm.UseBags
                /\ \/ (fromContainer < gm.N /\ gm.collectedBottles[fromContainer + 1])
                   \/ (toContainer < gm.N /\ gm.collectedBottles[toContainer + 1])
        THEN "collected bottle"
        ELSE IF Len(Container(gm, toContainer)) = Capacity(gm, toContainer)
        THEN "target full"
        ELSE IF Len(Container(gm, fromContainer)) = 0 THEN "source empty"
        ELSE IF /\ Len(Container(gm, toContainer)) > 0
                /\ Top(Container(gm, fromContainer)) # Top(Container(gm, toContainer))
        THEN "color mismatch"
        ELSE "unknown"

GetPourFailureReason(gm, fromContainer, toContainer) ==
    LET totalContainers == gm.N + gm.JarCount
    IN  IF \/ fromContainer < 0 \/ fromContainer >= totalContainers
           \/ toContainer < 0 \/ toContainer >= totalContainers
        THEN "invalid index"
        ELSE IF fromContainer = toContainer THEN "same container"
        ELSE IF /\ gm.UseBags
                /\ \/ (fromContainer < gm.N /\ gm.collectedBottles[fromContainer + 1])
                   \/ (toContainer < gm.N /\ gm.collectedBottles[toContainer + 1])
        THEN "collected bottle"
        ELSE IF Len(Container(gm, fromContainer)) = 0 THEN "source empty"
        ELSE IF Len(Container(gm, toContainer)) = Capacity(gm, toContainer)
        THEN "target full"
        ELSE IF /\ Len(Container(gm, toContainer)) > 0
                /\ Top(Container(gm, fromContainer)) # Top(Container(gm, toContainer))
        THEN "color mismatch"
        ELSE "unknown"

(***************************************************************************)
(* IsWon                                                                   *)
(***************************************************************************)
\* IsWon that does not look at the length of a non-empty bottle
IsWonAnyLength(gm) ==
    IF gm.UseBags
    THEN LET totalWater == (gm.N - gm.J) * gm.M
             idx == 1..Len(gm.bottles)
             collectedCount == Cardinality({i \in idx : gm.collectedBottles[i]})
             open == {i \in idx : ~gm.collectedBottles[i] /\ Len(gm.bottles[i]) > 0}
         IN  IF \E i \in open : ~isSingleColor(gm.bottles[i])
             THEN FALSE
             ELSE collectedCount * gm.M + Cardinality(open) * gm.M = totalWater
    ELSE LET nonEmpty == {i \in 1..Len(gm.bottles) : Len(gm.bottles[i]) # 0}
         IN  IF \E i \in nonEmpty :
                    \E k \in 1..Len(gm.bottles[i]) : gm.bottles[i][k] # gm.bottles[i][1]
             THEN FALSE
             ELSE Cardinality(nonEmpty) = gm.N - gm.J

\* IsWon that in bag mode does not compare the total with the water volume
IsWonNoTotal(gm) ==
    IF gm.UseBags
    THEN LET open == {i \in 1..Len(gm.bottles) :
                        ~gm.collectedBottles[i] /\ Len(gm.bottles[i]) > 0}
         IN  ~\E i \in open : Len(gm.bottles[i]) # gm.M \/ ~isSingleColor(gm.bottles[i])
    ELSE LET nonEmpty == {i \in 1..Len(gm.bottles) : Len(gm.bottles[i]) # 0}
         IN  IF \E i \in nonEmpty :
                    \/ Len(gm.bottles[i]) # gm.M
                    \/ \E k \in 1..Len(gm.bottles[i]) : gm.bottles[i][k] # gm.bottles[i][1]
             THEN FALSE
             ELSE Cardinality(nonEmpty) = gm.N - gm.J

IsWon(gm) ==
    IF gm.UseBags
    THEN LET totalWater == (gm.N - gm.J) * gm.M
             idx == 1..Len(gm.bottles)
             collectedCount == Cardinality({i \in idx : gm.collectedBottles[i]})
             open == {i \in idx : ~gm.collectedBottles[i] /\ Len(gm.bottles[i]) > 0}
         IN  IF \E i \in open : Len(gm.bottles[i]) # gm.M \/ ~isSingleColor(gm.bottles[i])
             THEN FALSE
             ELSE collectedCount * gm.M + Cardinality(open) * gm.M = totalWater
    ELSE LET nonEmpty == {i \in 1..Len(gm.bottles) : Len(gm.bottles[i]) # 0}
         IN  IF \E i \in nonEmpty :
                    \/ Len(gm.bottles[i]) # gm.M
                    \/ \E k \in 1..Len(gm.bottles[i]) : gm.bottles[i][k] # gm.bottles[i][1]
             THEN FALSE
             ELSE Cardinality(nonEmpty) = gm.N - gm.J

(***************************************************************************)
(* copyGameState, restoreGameState, statesEqual                            *)
(***************************************************************************)
copyGameState(gm) == [bottles |-> gm.bottles, jars |-> gm.jars]

restoreGameState(gm, state) ==
    [gm EXCEPT !.bottles = state.bottles,
               !.jars = state.jars,
               !.emptyCount = CountEmpty(state.bottles),
               !.emptyJarCount = CountEmpty(state.jars)]

statesEqual(state1, state2) ==
    /\ Len(state1.bottles) = Len(state2.bottles)
    /\ Len(state1.jars) = Len(state2.jars)
    /\ \A i \in 1..Len(state1.bottles) : state1.bottles[i] = state2.bottles[i]
    /\ \A i \in 1..Len(state1.jars) : state1.jars[i] = state2.jars[i]

(***************************************************************************)
(* CheckPossibleMoves                                                      *)
(***************************************************************************)
\* the two loops of lines 912-965 from the pair numbered `pair` on (the pair
\* (from, to) has number from * totalContainers + to): copy, try the pour,
\* count a success, restore
RECURSIVE checkMovesFrom(_, _, _, _)
checkMovesFrom(gm, pair, possibleMoves, opType) ==
    LET totalContainers == gm.N + gm.JarCount
        from == pair \div totalContainers
        to == pair % totalContainers
    IN  IF pair >= totalContainers * totalContainers
        THEN [g |-> gm, possibleMoves |-> possibleMoves]
        ELSE IF from = to THEN checkMovesFrom(gm, pair + 1, possibleMoves, opType)
        ELSE LET originalState == copyGameState(gm)
                 r == CHOOSE q \in pourWithType(gm, from, to, opType) : TRUE
             IN  checkMovesFrom(restoreGameState(r.g, originalState), pair + 1,
                                possibleMoves + (IF r.ok THEN 1 ELSE 0), opType)

\* the trial pours made as user pours, which run the collection step
CheckPossibleMovesCollecting(gm) == checkMovesFrom(gm, 0, 0, UserOperation)

CheckPossibleMoves(gm) == checkMovesFrom(gm, 0, 0, InternalOperation)

(***************************************************************************)
(* checkSolvabilityWithSearch (src/water_bottle_test.go)                   *)
(***************************************************************************)
maxDepth == 10
maxStates == 1000

isStateWon(gm, bottles) ==
    /\ \A i \in 1..Len(bottles) :
          \/ Len(bottles[i]) = 0
          \/ /\ Len(bottles[i]) = gm.M
             /\ \A j \in 1..Len(bottles[i]) : bottles[i][j] = bottles[i][1]
    /\ Cardinality({i \in 1..Len(bottles) : Len(bottles[i]) # 0}) = gm.N - gm.J

\* the text "c," for every unit c, the bottles joined by "|": here the
\* sequence of the colours with -1 where the text has "|"
RECURSIVE getStateSignature(_)
getStateSignature(bottles) ==
    IF bottles = <<>> THEN <<>>
    ELSE IF Len(bottles) = 1 THEN bottles[1]
    ELSE bottles[1] \o <<-1>> \o getStateSignature(Tail(bottles))

\* tryPourInState on a copy of the bottles: whether the pour was made, and
\* the bottles after it
tryPourInState(gm, bottles, from, to) ==
    LET fromBottle == bottles[from + 1]
        toBottle == bottles[to + 1]
        failed == [ok |-> FALSE, bottles |-> bottles]
    IN  IF Len(fromBottle) = 0 THEN failed
        ELSE IF Len(toBottle) >= gm.M THEN failed
        ELSE IF Len(toBottle) > 0 /\ Top(toBottle) # Top(fromBottle) THEN failed
        ELSE LET amount == Min(availableAmount(fromBottle), gm.M - Len(toBottle))
             IN  IF amount <= 0 THEN failed
                 ELSE [ok |-> TRUE,
                       bottles |-> [bottles EXCEPT
                          ![to + 1] = toBottle \o Repeat(Top(fromBottle), amount),
                          ![from + 1] = SubSeq(fromBottle, 1, Len(fromBottle) - amount)]]

\* the queue entries the two loops of lines 1490-1504 append for the dequeued
\* state, from the pair numbered `pair` on
RECURSIVE searchMoves(_, _, _)
searchMoves(gm, current, pair) ==
    LET n == Len(current.bottles)
        from == pair \div n
        to == pair % n
    IN  IF pair >= n * n THEN <<>>
        ELSE IF from = to THEN searchMoves(gm, current, pair + 1)
        ELSE LET r == tryPourInState(gm, current.bottles, from, to)
             IN  (IF r.ok THEN <<[bottles |-> r.bottles, depth |-> current.depth + 1]>>
                  ELSE <<>>) \o searchMoves(gm, current, pair + 1)

(***************************************************************************)
(* checkBasicConstraints (src/water_bottle_test.go)                        *)
(***************************************************************************)
\* colorCounts[c]: the units of colour c in the bottles
colorCounts(gm, c) ==
    Cardinality({p \in (1..Len(gm.bottles)) \X (1..gm.M) :
                   p[2] <= Len(gm.bottles[p[1]]) /\ gm.bottles[p[1]][p[2]] = c})

checkBasicConstraints(gm) ==
    /\ \A c \in UNION {Range(gm.bottles[i]) : i \in 1..Len(gm.bottles)} :
          colorCounts(gm, c) % gm.M = 0
    /\ SumLen(gm.bottles) = (gm.N - gm.J) * gm.M
    /\ ~(gm.emptyCount < 1)

(***************************************************************************)
(* createSolvedState                                                       *)
(***************************************************************************)
\* the colours without the extra bottle of the first (N-J) mod K colours
RECURSIVE solvedColorsNoExtra(_, _, _)
solvedColorsNoExtra(colorID, K, toFill) ==
    IF colorID >= K THEN <<>>
    ELSE Repeat(colorID, toFill \div K) \o solvedColorsNoExtra(colorID + 1, K, toFill)

\* the colour of each bottle the two nested loops fill, in bottle order
RECURSIVE solvedColors(_, _, _)
solvedColors(colorID, K, toFill) ==
    IF colorID >= K THEN <<>>
    ELSE LET baseBottlesPerColor == toFill \div K
             extraBottles == toFill % K
             bottlesForThisColor ==
                 baseBottlesPerColor + (IF colorID < extraBottles THEN 1 ELSE 0)
         IN  Repeat(colorID, bottlesForThisColor) \o solvedColors(colorID + 1, K, toFill)

\* the units are appended to what the bottle holds; the bottles after the
\* last filled one are replaced by empty ones
createSolvedState(gm) ==
    LET colors == solvedColors(0, gm.K, gm.N - gm.J)
        bottleIndex == Len(colors)
    IN  [gm EXCEPT
           !.bottles = [i \in 1..Len(gm.bottles) |->
                          IF i <= bottleIndex
                          THEN gm.bottles[i] \o Repeat(colors[i], gm.M)
                          ELSE <<>>],
           !.emptyCount = gm.J]

(***************************************************************************)
(* performSimplePour                                                       *)
(***************************************************************************)
performSimplePourOK(gm, fromIdx, toIdx, amount) ==
    /\ fromIdx >= 0 /\ fromIdx < Len(gm.bottles)
    /\ toIdx >= 0 /\ toIdx < Len(gm.bottles)
    /\ amount > 0
    /\ Len(gm.bottles[fromIdx + 1]) >= amount
    /\ Len(gm.bottles[toIdx + 1]) + amount <= gm.M
    /\ availableAmount(gm.bottles[fromIdx + 1]) >= amount

performSimplePour(gm, fromIdx, toIdx, amount) ==
    LET source == gm.bottles[fromIdx + 1]
        targetBottle == gm.bottles[toIdx + 1]
        color == Top(source)
        source2 == SubSeq(source, 1, Len(source) - amount)
        target2 == targetBottle \o Repeat(color, amount)
        dEmpty == (IF Len(source) # 0 /\ Len(source2) = 0 THEN 1 ELSE 0)
                  - (IF Len(targetBottle) = 0 /\ Len(target2) # 0 THEN 1 ELSE 0)
    IN  [gm EXCEPT !.bottles[toIdx + 1] = target2,
                   !.bottles[fromIdx + 1] = source2,
                   !.emptyCount = @ + dEmpty]

(***************************************************************************)
(* tryReverseOperationWithRecord                                           *)
(***************************************************************************)
\* the (source, amount) pairs the random choices of an attempt can produce
reverseChoices(gm) ==
    UNION {{[source |-> i, amount |-> a] :
              a \in 1..(IF Len(gm.bottles[i + 1]) = 0 THEN 0
                        ELSE availableAmount(gm.bottles[i + 1]))} :
           i \in 0..(Len(gm.bottles) - 1)}

\* the targets of a choice: every other bottle with room for the amount
reverseTargets(gm, c) ==
    {t \in 0..(Len(gm.bottles) - 1) :
        t # c.source /\ Len(gm.bottles[t + 1]) + c.amount <= gm.M}

\* acceptance of every backward transfer that performSimplePour carries out
reverseAcceptedUntested(gm, sourceIdx, targetIdx, amount) ==
    performSimplePourOK(gm, sourceIdx, targetIdx, amount)

\* the test of lines 500-507: after the backward transfer the forward pour
\* target -> source succeeds, moves pourAmount and restores the state
reverseAccepted(gm, sourceIdx, targetIdx, amount) ==
    /\ performSimplePourOK(gm, sourceIdx, targetIdx, amount)
    /\ LET stateBefore == copyGameState(gm)
           g1 == performSimplePour(gm, sourceIdx, targetIdx, amount)
           r == pourInternal(g1, targetIdx, sourceIdx)
       IN  /\ r.ok
           /\ r.moved = amount
           /\ statesEqual(stateBefore, copyGameState(r.g))

\* lines 508-521: restore, redo the backward transfer, record the move
reverseCommit(gm, sourceIdx, targetIdx, amount) ==
    LET g1 == performSimplePour(restoreGameState(gm, copyGameState(gm)),
                                sourceIdx, targetIdx, amount)
        move == [From |-> sourceIdx, To |-> targetIdx, Amount |-> amount,
                 Color |-> Top(gm.bottles[sourceIdx + 1])]
    IN  [g1 EXCEPT !.reverseSteps = Append(@, move)]

\* the states a call that returns true can leave
tryReverseSuccess(gm) ==
    {reverseCommit(gm, c.source, t, c.amount) :
        <<c, t>> \in {p \in reverseChoices(gm) \X (0..(Len(gm.bottles) - 1)) :
                        /\ p[2] \in reverseTargets(gm, p[1])
                        /\ reverseAccepted(gm, p[1].source, p[2], p[1].amount)}}

\* a call that returns false and leaves a rejected attempt as the forward
\* pour of the test left it
tryReverseFailureNoRestore(gm) ==
    LET noTarget == \E c \in reverseChoices(gm) : reverseTargets(gm, c) = {}
    IN  (IF reverseChoices(gm) = {} \/ noTarget THEN {gm} ELSE {})
        \cup {pourInternal(performSimplePour(gm, p[1].source, p[2], p[1].amount),
                           p[2], p[1].source).g :
                 p \in {q \in reverseChoices(gm) \X (0..(Len(gm.bottles) - 1)) :
                          /\ q[2] \in reverseTargets(gm, q[1])
                          /\ ~reverseAccepted(gm, q[1].source, q[2], q[1].amount)}}

\* the states a call that returns false can leave: no source at all, every
\* attempt without a target, or some attempt undone by restoreGameState
tryReverseFailure(gm) ==
    LET rejected == \E c \in reverseChoices(gm) : \E t \in reverseTargets(gm, c) :
                        ~reverseAccepted(gm, c.source, t, c.amount)
        noTarget == \E c \in reverseChoices(gm) : reverseTargets(gm, c) = {}
    IN  (IF reverseChoices(gm) = {} \/ noTarget THEN {gm} ELSE {})
        \cup (IF rejected THEN {restoreGameState(gm, copyGameState(gm))} ELSE {})

(***************************************************************************)
(* validateReverseSteps                                                    *)
(***************************************************************************)
\* the replay loop from step i down to 1; stops at the first failed pour
RECURSIVE replaySteps(_, _)
replaySteps(gm, i) ==
    IF i < 1 THEN [ok |-> TRUE, g |-> gm]
    ELSE LET move == gm.reverseSteps[i]
         IN  \* r ranges over the one result of the pour, so it is computed once
             CHOOSE res \in { IF ~r.ok THEN [ok |-> FALSE, g |-> gm]
                              ELSE replaySteps(r.g, i - 1) :
                              r \in {pourInternal(gm, move.To, move.From)} } : TRUE

\* validation that replays the log and does not test the result with IsWon
validateReverseStepsNoWonTest(gm) ==
    LET currentState == copyGameState(gm)
        r == replaySteps(gm, Len(gm.reverseSteps))
    IN  IF ~r.ok THEN [ok |-> FALSE, g |-> r.g]
        ELSE [ok |-> TRUE, g |-> restoreGameState(r.g, currentState)]

validateReverseSteps(gm) ==
    LET currentState == copyGameState(gm)
        r == replaySteps(gm, Len(gm.reverseSteps))
    IN  IF ~r.ok THEN [ok |-> FALSE, g |-> r.g]
        ELSE IF ~IsWon(r.g) THEN [ok |-> FALSE, g |-> r.g]
        ELSE [ok |-> TRUE, g |-> restoreGameState(r.g, currentState)]

\* a run without an accepted step reported as an error
finishReverseNeedsSteps(gm, steps) ==
    IF steps > 0 THEN validateReverseSteps(gm) ELSE [ok |-> FALSE, g |-> gm]

\* the end of generateByReverseWithSteps (lines 358-368)
finishReverse(gm, steps) ==
    IF steps > 0 THEN validateReverseSteps(gm) ELSE [ok |-> TRUE, g |-> gm]

(***************************************************************************)
(* generateRandomState                                                     *)
(***************************************************************************)
\* createColorPool: how many units of a colour the pool holds
poolUnits(gm, colorID) ==
    LET totalWater == (gm.N - gm.J) * gm.M
    IN  (totalWater \div gm.K) + (IF colorID < totalWater % gm.K THEN 1 ELSE 0)

\* every sequence of n units that takes counts[c] units of each colour c
RECURSIVE arrangements(_, _)
arrangements(counts, n) ==
    IF n = 0 THEN {<<>>}
    ELSE UNION {{<<c>> \o t : t \in arrangements([counts EXCEPT ![c] = @ - 1], n - 1)} :
                  c \in {d \in DOMAIN counts : counts[d] > 0}}

\* shuffleColorPool: every arrangement of the pool createColorPool builds
shuffledPools(gm) ==
    arrangements([c \in 0..(gm.K - 1) |-> poolUnits(gm, c)], (gm.N - gm.J) * gm.M)

\* distributeWaterRandomly: bottles 0..N-J-1 are filled to capacity from the
\* shuffled pool in a shuffled bottle order, then the bags are set
distributeWaterRandomly(gm, waterPool) ==
    UNION {LET g1 == [gm EXCEPT
                        !.bottles = [i \in 1..Len(gm.bottles) |->
                                       IF i <= gm.N - gm.J
                                       THEN SubSeq(waterPool, (order[i] - 1) * gm.M + 1,
                                                   order[i] * gm.M)
                                       ELSE <<>>],
                        !.emptyCount = gm.J]
           IN  IF gm.UseBags THEN updateBagColors(g1) ELSE {g1} :
           order \in Orderings(1..(gm.N - gm.J))}

generationParamsUnchecked(gm) == FALSE

generationParamsBad(gm) == gm.K > ((gm.N - gm.J) * gm.M) \div gm.M

(***************************************************************************)
(* ShuffleWater                                                            *)
(***************************************************************************)
\* the units of colour c in the bottles of the index set S
unitsInBottles(bottles, S, c) ==
    Cardinality({p \in UNION {{<<i, j>> : j \in 1..Len(bottles[i])} : i \in S} :
                   bottles[p[1]][p[2]] = c})

\* the bottles ShuffleWater leaves alone: full and of one colour (lines 1313-1318)
completedBottles(gm) ==
    {i \in 1..Len(gm.bottles) :
        Len(gm.bottles[i]) = gm.M /\ isSingleColor(gm.bottles[i])}

\* the boards the redistribution can produce (lines 1345-1378): the pool of
\* the units of the other bottles, in any order, dealt to those bottles one
\* unit at a time, each to a randomly picked bottle that is not full
shuffledBottles(gm) ==
    LET idx == 1..Len(gm.bottles)
        open == idx \ completedBottles(gm)
        colors == UNION {Range(gm.bottles[i]) : i \in open}
        fillings == UNION {[1..n -> colors] : n \in 0..gm.M}
    IN  {[i \in idx |-> IF i \in open THEN f[i] ELSE gm.bottles[i]] :
            f \in {h \in [open -> fillings] :
                      \A c \in colors :
                         unitsInBottles(h, open, c) = unitsInBottles(gm.bottles, open, c)}}

\* ShuffleWater(): the jars are emptied, emptyCount is recounted, and in bag
\* mode the bags are set again
ShuffleWaterResults(gm) ==
    UNION {LET g1 == [gm EXCEPT
                        !.bottles = bottles,
                        !.jars = IF gm.JarCount > 0
                                 THEN [i \in 1..Len(gm.jars) |-> <<>>] ELSE @,
                        !.emptyJarCount = IF gm.JarCount > 0 THEN gm.JarCount ELSE @,
                        !.emptyCount = CountEmpty(bottles)]
           IN  IF gm.UseBags THEN updateBagColors(g1) ELSE {g1} :
           bottles \in shuffledBottles(gm)}

(***************************************************************************)
(* The state machine                                                       *)
(***************************************************************************)
\* what the last call returned: success flag, units moved, reason text
Ret(op, ok, moved, reason) ==
    [op |-> op, ok |-> ok, moved |-> moved, reason |-> reason]

\* the arguments of the call of NewWaterBottleGame
Args(N, M, J, K, JarCount, JarCapacity, UseBags) ==
    [N |-> N, M |-> M, J |-> J, K |-> K, JarCount |-> JarCount,
     JarCapacity |-> JarCapacity, UseBags |-> UseBags]

\* make([]Bottle, N) and make([]bool, N) panic for a negative length; the
\* parameter checks run first
makePanics(N) == N < 0

\* createSolvedState and distributeWaterRandomly write bottles[0..N-J-1];
\* with J < 0 the index reaches len(bottles) and the program panics
bottleIndexOutOfRange(gm) == gm.N - gm.J > Len(gm.bottles)

\* the locals of checkSolvabilityWithSearch: the queue of (bottles, depth),
\* the visited signatures, the count of dequeued states, and whether the
\* call returned from the won test
SearchState(queue, visited, statesChecked, won) ==
    [queue |-> queue, visited |-> visited, statesChecked |-> statesChecked,
     won |-> won]

NoSearch == SearchState(<<>>, {}, 0, FALSE)

(***************************************************************************)
(* Slices and their backing arrays                                         *)
(*                                                                         *)
(* A Go slice is a header (backing array, length); every slice of the      *)
(* program starts at the first element of its array, so its capacity is    *)
(* the length of the array.  mem.arrays are the backing arrays.  mem.live  *)
(* are the headers of g.bottles followed by those of g.jars, mem.snap the  *)
(* headers of a GameState made by copyGameState, mem.current those of a    *)
(* dequeued state of the search and mem.child those of the newBottles of   *)
(* an expansion.  mem.taken is what the bottles and jars held when the     *)
(* snapshot was made.                                                      *)
(***************************************************************************)
Max(a, b) == IF a > b THEN a ELSE b

Header(arr, len) == [arr |-> arr, len |-> len]

Contents(arrays, h) == SubSeq(arrays[h.arr], 1, h.len)

ContentsAll(arrays, hs) == [i \in 1..Len(hs) |-> Contents(arrays, hs[i])]

\* a "copy" that is the assignment of the slice: both share the array
makeCopyShared(arrays, h) == [arrays |-> arrays, h |-> h]

\* make([]Color, len(s)) and copy: a new array of exactly len(s) elements
makeCopy(arrays, h) ==
    [arrays |-> Append(arrays, Contents(arrays, h)),
     h |-> Header(Len(arrays) + 1, h.len)]

\* the loops of copyGameState, restoreGameState and copyState: a copy of
\* every slice, hs[Len(done)+1] onwards
RECURSIVE copySlices(_, _, _)
copySlices(arrays, hs, done) ==
    IF Len(done) = Len(hs) THEN [arrays |-> arrays, hs |-> done]
    ELSE LET r == makeCopy(arrays, hs[Len(done) + 1])
         IN  copySlices(r.arrays, hs, Append(done, r.h))

\* append(s, c): in place while the array has room, else into a new array
\* of twice the capacity
appendUnit(arrays, h, c) ==
    IF h.len < Len(arrays[h.arr])
    THEN [arrays |-> [arrays EXCEPT ![h.arr][h.len + 1] = c],
          h |-> Header(h.arr, h.len + 1)]
    ELSE LET newcap == Max(h.len + 1, 2 * Len(arrays[h.arr]))
         IN  [arrays |-> Append(arrays, Contents(arrays, h) \o <<c>>
                                           \o Repeat(0, newcap - h.len - 1)),
              h |-> Header(Len(arrays) + 1, h.len + 1)]

RECURSIVE appendUnits(_, _, _, _)
appendUnits(arrays, h, c, n) ==
    IF n = 0 THEN [arrays |-> arrays, h |-> h]
    ELSE LET r == appendUnit(arrays, h, c)
         IN  appendUnits(r.arrays, r.h, c, n - 1)

\* the transfer of pourWithType and of tryPourInState on the slices hs:
\* pourAmount appends of the top colour to hs[to], then hs[from] is cut
pourSlices(arrays, hs, from, to, amount) ==
    LET topColor == arrays[hs[from].arr][hs[from].len]
        r == appendUnits(arrays, hs[to], topColor, amount)
    IN  [arrays |-> r.arrays,
         hs |-> [hs EXCEPT ![to] = r.h,
                           ![from] = Header(hs[from].arr, hs[from].len - amount)]]

\* the arrays some slice refers to, numbered in the order of the slices; an
\* array no slice refers to is garbage, and an element beyond the length of
\* every slice of its array is written by append before it is read
RECURSIVE arraysInOrder(_, _)
arraysInOrder(refs, seen) ==
    IF refs = <<>> THEN seen
    ELSE arraysInOrder(Tail(refs),
                       IF \E k \in 1..Len(seen) : seen[k] = Head(refs).arr
                       THEN seen ELSE Append(seen, Head(refs).arr))

collectGarbage(m) ==
    LET refs == m.live \o m.snap \o m.current \o m.child
        order == arraysInOrder(refs, <<>>)
        number == [a \in Range(order) |-> CHOOSE k \in 1..Len(order) : order[k] = a]
        maxlen == [k \in 1..Len(order) |->
                     CHOOSE n \in 0..Len(m.arrays[order[k]]) :
                        /\ \E i \in 1..Len(refs) : refs[i].arr = order[k] /\ refs[i].len = n
                        /\ \A i \in 1..Len(refs) : refs[i].arr = order[k] => refs[i].len <= n]
        renumber(hs) == [i \in 1..Len(hs) |-> Header(number[hs[i].arr], hs[i].len)]
    IN  [arrays |-> [k \in 1..Len(order) |->
                       [j \in 1..Len(m.arrays[order[k]]) |->
                          IF j <= maxlen[k] THEN m.arrays[order[k]][j] ELSE 0]],
         live |-> renumber(m.live),
         snap |-> renumber(m.snap),
         taken |-> m.taken,
         current |-> renumber(m.current),
         child |-> renumber(m.child)]

\* no slice is followed
NoMem == [arrays |-> <<>>, live |-> <<>>, snap |-> <<>>, taken |-> <<>>,
          current |-> <<>>, child |-> <<>>]

\* the slices of a game that distributeWaterRandomly has filled: every
\* bottle is make(Bottle, 0, M) with its units appended in place, every jar
\* make(Bottle, 0, JarCapacity)
generatedSlices(gm) ==
    LET held == gm.bottles \o gm.jars
    IN  [NoMem EXCEPT
           !.arrays = [i \in 1..Len(held) |->
                         held[i] \o Repeat(0, Capacity(gm, i - 1) - Len(held[i]))],
           !.live = [i \in 1..Len(held) |-> Header(i, Len(held[i]))]]

Init ==
    /\ g = NoGame
    /\ args = Args(0, 0, 0, 0, 0, 0, FALSE)
    /\ search = NoSearch
    /\ mem = NoMem
    /\ pc = "init"
    /\ ret = Ret("none", TRUE, 0, "")
    /\ target = 0
    /\ step = 0
    /\ actualSteps = 0

\* NewWaterBottleGame(N, M, J, K, JarCount, JarCapacity, UseBags)
New ==
    /\ pc = "init"
    /\ \E N \in -1..MaxN, M \in 0..MaxM, J \in -2..MaxN, K \in 0..MaxK,
          JarCount \in -1..MaxJars, UseBags \in BOOLEAN :
       \E JarCapacity \in (IF JarCount > 0 THEN 0..MaxJarCap ELSE {0}) :
          /\ args' = Args(N, M, J, K, JarCount, JarCapacity, UseBags)
          /\ IF NewGameError(N, M, J, K, JarCount, JarCapacity)
             THEN /\ g' = NoGame
                  /\ pc' = "error"
                  /\ ret' = Ret("New", FALSE, 0, "")
             ELSE IF makePanics(N)
             THEN /\ g' = NoGame
                  /\ pc' = "panic"
                  /\ ret' = Ret("New", FALSE, 0, "")
             ELSE /\ g' \in NewWaterBottleGame(N, M, J, K, JarCount, JarCapacity, UseBags)
                  /\ pc' = "new"
                  /\ ret' = Ret("New", TRUE, 0, "")
    /\ UNCHANGED <<target, step, actualSteps, search, mem>>

\* createSolvedState() called on the fresh game
CreateSolved ==
    /\ pc = "new"
    /\ ~generationParamsBad(g)
    /\ IF bottleIndexOutOfRange(g)
       THEN /\ pc' = "panic"
            /\ ret' = Ret("createSolvedState", FALSE, 0, "")
            /\ UNCHANGED g
       ELSE /\ g' = createSolvedState(g)
            /\ pc' = "solved"
            /\ ret' = Ret("createSolvedState", TRUE, 0, "")
    /\ UNCHANGED <<args, target, step, actualSteps, search, mem>>

\* generateInitialState without bags: generateInitialStateWithSteps up to the
\* start of the loop of generateByReverseWithSteps (the parameter check,
\* createSolvedState and the empty log); the step count is an input
GenerateStart ==
    /\ pc = "new"
    /\ ~g.UseBags
    /\ IF generationParamsBad(g)
       THEN /\ pc' = "failed"
            /\ ret' = Ret("generate", FALSE, 0, "")
            /\ UNCHANGED <<g, target, step, actualSteps>>
       ELSE IF bottleIndexOutOfRange(g)
       THEN /\ pc' = "panic"
            /\ ret' = Ret("generate", FALSE, 0, "")
            /\ UNCHANGED <<g, target, step, actualSteps>>
       ELSE /\ \E reverseSteps \in 0..MaxSteps : target' = reverseSteps
            /\ g' = [createSolvedState(g) EXCEPT !.reverseSteps = <<>>]
            /\ pc' = "reverse"
            /\ ret' = Ret("createSolvedState", TRUE, 0, "")
            /\ step' = 0
            /\ actualSteps' = 0
    /\ UNCHANGED <<args, search, mem>>

\* one iteration of the loop over step in which some call of
\* tryReverseOperationWithRecord returns true
ReverseStep ==
    /\ pc = "reverse"
    /\ step < target
    /\ g' \in tryReverseSuccess(g)
    /\ step' = step + 1
    /\ actualSteps' = actualSteps + 1
    /\ ret' = Ret("tryReverse", TRUE, 0, "")
    /\ UNCHANGED <<args, pc, target, search, mem>>

\* the end of generateByReverseWithSteps: the loop has run target times, or
\* an iteration found no reverse operation, printed that the limit is reached
\* and broke out (lines 333-339); then validation
ReverseFinish ==
    /\ pc = "reverse"
    /\ \E g1 \in (IF step < target THEN tryReverseFailure(g) ELSE {g}) :
          LET r == finishReverse(g1, actualSteps)
          IN  /\ g' = r.g
              /\ pc' = IF r.ok THEN "play" ELSE "failed"
              /\ ret' = Ret("generate", r.ok, actualSteps,
                            IF step < target THEN "limit reached" ELSE "")
    /\ target' = 0
    /\ step' = 0
    /\ actualSteps' = 0
    /\ UNCHANGED <<args, search, mem>>

\* generateInitialState in bag mode: generateRandomState
GenerateRandom ==
    /\ pc = "new"
    /\ g.UseBags
    /\ IF generationParamsBad(g)
       THEN /\ pc' = "failed"
            /\ ret' = Ret("generate", FALSE, 0, "")
            /\ UNCHANGED g
       ELSE IF bottleIndexOutOfRange(g)
       THEN /\ pc' = "panic"
            /\ ret' = Ret("generate", FALSE, 0, "")
            /\ UNCHANGED g
       ELSE /\ \E waterPool \in shuffledPools(g) :
                  g' \in distributeWaterRandomly(g, waterPool)
            /\ pc' = "play"
            /\ ret' = Ret("generate", TRUE, 0, "")
    /\ UNCHANGED <<args, target, step, actualSteps, search, mem>>

\* the test of lines 739-747 (and 861-868) reads collectedBottles[c] for a
\* bottle index c below N; a bottle without a flag makes the program panic
flagCheckPanics(gm, fromContainer, toContainer) ==
    LET totalContainers == gm.N + gm.JarCount
        flags == Len(gm.collectedBottles)
    IN  /\ gm.UseBags
        /\ fromContainer >= 0 /\ fromContainer < totalContainers
        /\ toContainer >= 0 /\ toContainer < totalContainers
        /\ fromContainer # toContainer
        /\ \/ fromContainer < gm.N /\ fromContainer >= flags
           \/ /\ ~(fromContainer < gm.N /\ gm.collectedBottles[fromContainer + 1])
              /\ toContainer < gm.N /\ toContainer >= flags

\* the loops of checkAndCollectBottles and getAvailableColors read
\* collectedBottles[i] for every bottle: an accepted user pour of a bag-mode
\* game panics in the collection step when a bottle has no flag
collectionPanics(gm, fromContainer, toContainer) ==
    /\ gm.UseBags
    /\ Len(gm.collectedBottles) < Len(gm.bottles)
    /\ ~flagCheckPanics(gm, fromContainer, toContainer)
    /\ pourRejection(gm, fromContainer, toContainer) = "none"
    /\ pourAmount(gm, fromContainer, toContainer) > 0

\* IsWon in bag mode reads collectedBottles[i] bottle by bottle and returns
\* false at the first open bottle that is not complete (lines 1058-1064)
IsWonPanics(gm) ==
    /\ gm.UseBags
    /\ Len(gm.collectedBottles) < Len(gm.bottles)
    /\ \A i \in 1..Len(gm.collectedBottles) :
          \/ gm.collectedBottles[i]
          \/ Len(gm.bottles[i]) = 0
          \/ Len(gm.bottles[i]) = gm.M /\ isSingleColor(gm.bottles[i])

\* what IsWon returns when it does not panic: with a bottle without a flag
\* the loop has returned false at an open bottle before reaching it
IsWonReturn(gm) ==
    IF gm.UseBags /\ Len(gm.collectedBottles) < Len(gm.bottles) THEN FALSE
    ELSE IsWon(gm)

\* the container indices a caller passes: every valid one and one on each side
Indices == -1..(g.N + g.JarCount)

\* emptyCount and emptyJarCount are not recomputed by a pour and can move
\* away from the true counts without limit; the model follows them this far
CountersInRange(gm) ==
    /\ gm.emptyCount \in (0 - MaxDrift)..(gm.N + MaxDrift)
    /\ gm.emptyJarCount \in (0 - MaxDrift)..(gm.JarCount + MaxDrift)

\* Pour(fromContainer, toContainer)
Pour ==
    /\ pc = "play"
    /\ \E from \in Indices, to \in Indices :
          IF flagCheckPanics(g, from, to)
          THEN /\ pc' = "panic"
               /\ ret' = Ret("Pour", FALSE, 0, "")
               /\ UNCHANGED g
          ELSE IF collectionPanics(g, from, to)
          THEN /\ pc' = "panic"
               /\ ret' = Ret("Pour", FALSE, 0, "")
               /\ g' = transfer(g, from, to, pourAmount(g, from, to))
          ELSE \E r \in pourWithType(g, from, to, UserOperation) :
                  /\ CountersInRange(r.g)
                  /\ g' = r.g
                  /\ ret' = Ret("Pour", r.ok, r.moved, "")
                  /\ UNCHANGED pc
    /\ UNCHANGED <<args, target, step, actualSteps, search, mem>>

\* GetPourFailureReason(fromContainer, toContainer)
PourFailureReason ==
    /\ pc = "play"
    /\ \E from \in Indices, to \in Indices :
          IF flagCheckPanics(g, from, to)
          THEN /\ pc' = "panic"
               /\ ret' = Ret("GetPourFailureReason", FALSE, 0, "")
          ELSE /\ ret' = Ret("GetPourFailureReason", TRUE, 0,
                             GetPourFailureReason(g, from, to))
               /\ UNCHANGED pc
    /\ UNCHANGED <<g, args, target, step, actualSteps, search, mem>>

\* IsWon()
Won ==
    /\ pc \in {"solved", "play"}
    /\ IF IsWonPanics(g)
       THEN /\ pc' = "panic"
            /\ ret' = Ret("IsWon", FALSE, 0, "")
       ELSE /\ ret' = Ret("IsWon", IsWonReturn(g), 0, "")
            /\ UNCHANGED pc
    /\ UNCHANGED <<g, args, target, step, actualSteps, search, mem>>

Next ==
    \/ New
    \/ CreateSolved
    \/ GenerateStart
    \/ ReverseStep
    \/ ReverseFinish
    \/ GenerateRandom
    \/ Pour
    \/ PourFailureReason
    \/ Won

Spec == Init /\ [][Next]_vars

\* checkAndCollectBottles() called again with no pour in between: directly
\* after the call a successful user pour has made, or after such a repeated call
Collect ==
    /\ pc = "play"
    /\ g.UseBags
    /\ \/ ret.op = "Pour" /\ ret.ok
       \/ ret.op = "checkAndCollectBottles"
    /\ \E h \in checkAndCollectBottles(g) :
          /\ g' = h
          /\ ret' = Ret("checkAndCollectBottles",
                        h.collectedBottles # g.collectedBottles, 0, "")
    /\ UNCHANGED <<args, pc, target, step, actualSteps, search, mem>>

\* CheckPossibleMoves()
PossibleMoves ==
    /\ pc = "play"
    /\ LET r == CheckPossibleMoves(g)
       IN  /\ g' = r.g
           /\ ret' = Ret("CheckPossibleMoves", r.possibleMoves > 0, r.possibleMoves, "")
    /\ UNCHANGED <<args, pc, target, step, actualSteps, search, mem>>

NextCollect == Next \/ Collect

\* creation and reverse generation alone; the loop of generateByReverseWithSteps
\* is sequential code that keeps running, so its next iteration or its end
\* always comes
NextGenerate == New \/ GenerateStart \/ ReverseStep \/ ReverseFinish

SpecGenerate ==
    Init /\ [][NextGenerate]_vars /\ WF_vars(ReverseStep \/ ReverseFinish)

\* the states the loop of generateByReverseWithSteps is in after n accepted steps
RECURSIVE reverseStatesAfter(_, _)
reverseStatesAfter(S, n) ==
    IF n = 0 THEN S
    ELSE reverseStatesAfter(UNION {tryReverseSuccess(h) : h \in S}, n - 1)

\* validateReverseSteps reads the bottles, the jars and the From and To of
\* every logged move: the logs of the same length with any container indices
relabelledLogs(gm) ==
    LET containers == 0..(gm.N + gm.JarCount - 1)
        log == gm.reverseSteps
    IN  {[i \in 1..Len(log) |-> [log[i] EXCEPT !.From = f[i][1], !.To = f[i][2]]] :
            f \in [1..Len(log) -> containers \X containers]}

\* the end of the loop of generateByReverseWithSteps with at least one step
\* accepted, the log being an input of the validation that follows
InitValidate ==
    /\ \E N \in 1..MaxN, M \in 1..MaxM, J \in 0..MaxN, K \in 1..MaxK,
          JarCount \in 0..MaxJars :
          /\ ~NewGameError(N, M, J, K, JarCount, MaxJarCap)
          /\ args = Args(N, M, J, K, JarCount, MaxJarCap, FALSE)
          /\ \E gm \in NewWaterBottleGame(N, M, J, K, JarCount, MaxJarCap, FALSE) :
                /\ ~generationParamsBad(gm)
                /\ \E n \in 1..MaxSteps :
                      /\ target = n /\ step = n /\ actualSteps = n
                      /\ \E h \in reverseStatesAfter(
                                    {[createSolvedState(gm) EXCEPT !.reverseSteps = <<>>]}, n) :
                            \E log \in relabelledLogs(h) :
                                g = [h EXCEPT !.reverseSteps = log]
    /\ pc = "reverse"
    /\ ret = Ret("tryReverse", TRUE, 0, "")
    /\ search = NoSearch
    /\ mem = NoMem

SpecValidate == InitValidate /\ [][ReverseFinish]_vars

\* the games the search is run on: the boards generateRandomState makes for
\* a game without jars and bags
InitSearch ==
    /\ \E N \in 1..SearchN, M \in 1..MaxM, J \in 0..SearchN, K \in 1..MaxK :
          /\ ~NewGameError(N, M, J, K, 0, 0)
          /\ args = Args(N, M, J, K, 0, 0, FALSE)
          /\ \E gm \in NewWaterBottleGame(N, M, J, K, 0, 0, FALSE) :
                /\ ~generationParamsBad(gm)
                /\ \E waterPool \in shuffledPools(gm) :
                      g \in distributeWaterRandomly(gm, waterPool)
    /\ pc = "play"
    /\ ret = Ret("generate", TRUE, 0, "")
    /\ target = 0
    /\ step = 0
    /\ actualSteps = 0
    /\ search = NoSearch
    /\ mem = NoMem

\* checkSolvabilityWithSearch() up to the loop: the queue holds the board
SearchStart ==
    /\ pc = "play"
    /\ search' = SearchState(<<[bottles |-> g.bottles, depth |-> 0]>>, {}, 0, FALSE)
    /\ pc' = "search"
    /\ UNCHANGED <<g, args, ret, target, step, actualSteps, mem>>

\* one iteration of the loop (lines 1467-1505)
SearchStep ==
    /\ pc = "search"
    /\ Len(search.queue) > 0 /\ search.statesChecked < maxStates
    /\ LET current == Head(search.queue)
           queue == Tail(search.queue)
           statesChecked == search.statesChecked + 1
           signature == getStateSignature(current.bottles)
       IN  IF isStateWon(g, current.bottles)
           THEN /\ search' = SearchState(queue, search.visited, statesChecked, TRUE)
                /\ pc' = "searched"
                /\ ret' = Ret("checkSolvabilityWithSearch", TRUE, statesChecked, "")
           ELSE /\ search' =
                     IF current.depth >= maxDepth \/ signature \in search.visited
                     THEN SearchState(queue, search.visited, statesChecked, FALSE)
                     ELSE SearchState(queue \o searchMoves(g, current, 0),
                                      search.visited \cup {signature},
                                      statesChecked, FALSE)
                /\ UNCHANGED <<pc, ret>>
    /\ UNCHANGED <<g, args, target, step, actualSteps, mem>>

\* the loop has ended: the return of line 1509
SearchDone ==
    /\ pc = "search"
    /\ ~(Len(search.queue) > 0 /\ search.statesChecked < maxStates)
    /\ pc' = "searched"
    /\ ret' = Ret("checkSolvabilityWithSearch", search.statesChecked < maxStates,
                  search.statesChecked, "")
    /\ UNCHANGED <<g, args, target, step, actualSteps, search, mem>>

NextSearch == SearchStart \/ SearchStep \/ SearchDone

SpecSearch == InitSearch /\ [][NextSearch]_vars

\* the loop of checkSolvabilityWithSearch() run to its end from the search
\* state s: the answer and the number of states checked
RECURSIVE searchLoop(_, _)
searchLoop(gm, s) ==
    IF ~(Len(s.queue) > 0 /\ s.statesChecked < maxStates)
    THEN [ok |-> s.statesChecked < maxStates, statesChecked |-> s.statesChecked]
    ELSE LET current == Head(s.queue)
             queue == Tail(s.queue)
             statesChecked == s.statesChecked + 1
             signature == getStateSignature(current.bottles)
         IN  IF isStateWon(gm, current.bottles)
             THEN [ok |-> TRUE, statesChecked |-> statesChecked]
             ELSE \* n ranges over the one next search state, computed once
                  CHOOSE res \in { searchLoop(gm, n) : n \in
                      { IF current.depth >= maxDepth \/ signature \in s.visited
                        THEN SearchState(queue, s.visited, statesChecked, FALSE)
                        ELSE SearchState(queue \o searchMoves(gm, current, 0),
                                         s.visited \cup {signature},
                                         statesChecked, FALSE) } } : TRUE

checkSolvabilityWithSearch(gm) ==
    searchLoop(gm, SearchState(<<[bottles |-> gm.bottles, depth |-> 0]>>, {}, 0, FALSE))

\* isSolvable(): the fast reject by checkBasicConstraints, or the answer of
\* checkSolvabilityWithSearch; ret.moved is the number of states the search
\* checked, 0 when it did not run.  The code that holds isSolvable has
\* neither bags nor jars
IsSolvable ==
    /\ pc = "play"
    /\ ~g.UseBags /\ g.JarCount = 0
    /\ ret' = IF ~checkBasicConstraints(g)
              THEN Ret("isSolvable", FALSE, 0, "")
              ELSE LET r == checkSolvabilityWithSearch(g)
                   IN  Ret("isSolvable", r.ok, r.statesChecked, "")
    /\ UNCHANGED <<g, args, pc, target, step, actualSteps, search, mem>>

NextSolvable == Next \/ IsSolvable

SpecSolvable == Init /\ [][NextSolvable]_vars

\* a user pour of a bag-mode game up to the call of checkAndCollectBottles
\* (lines 720-837): a rejected pour returns, an accepted one has made its
\* transfer and enters the loop of the collection step
PourBegin ==
    /\ pc = "play"
    /\ g.UseBags
    /\ \E from \in Indices, to \in Indices :
          IF pourRejection(g, from, to) # "none" \/ pourAmount(g, from, to) <= 0
          THEN /\ ret' = Ret("Pour", FALSE, 0, "")
               /\ UNCHANGED <<g, pc>>
          ELSE LET amount == pourAmount(g, from, to)
                   g1 == transfer(g, from, to, amount)
               IN  /\ CountersInRange(g1)
                   /\ g' = g1
                   /\ pc' = "collect"
                   /\ ret' = Ret("pourWithType", TRUE, amount, "")
    /\ UNCHANGED <<args, target, step, actualSteps, search, mem>>

\* one pass of the loop of checkAndCollectBottles (lines 1509-1585); the
\* pass that collects nothing and leaves the bags as they were is the last,
\* and the pour returns
CollectPass ==
    /\ pc = "collect"
    /\ \E r \in collectPass(g) :
          /\ g' = r.g
          /\ IF r.done
             THEN /\ pc' = "play"
                  /\ ret' = Ret("Pour", TRUE, ret.moved, "")
             ELSE UNCHANGED <<pc, ret>>
    /\ UNCHANGED <<args, target, step, actualSteps, search, mem>>

NextPasses == New \/ GenerateRandom \/ PourBegin \/ CollectPass

\* the loop runs on while it has not ended
SpecPasses == Init /\ [][NextPasses]_vars /\ WF_vars(CollectPass)

\* generateInitialStateWithSteps called again on a game that holds a puzzle
\* or whose generation failed: the same steps as GenerateStart, on the
\* bottles as they are; the model follows it while no bottle exceeds MaxFill
Regenerate ==
    /\ pc \in {"play", "failed"}
    /\ ~g.UseBags
    /\ \A i \in 1..Len(g.bottles) : Len(g.bottles[i]) + g.M <= MaxFill
    /\ IF generationParamsBad(g)
       THEN /\ pc' = "failed"
            /\ ret' = Ret("generate", FALSE, 0, "")
            /\ UNCHANGED <<g, target, step, actualSteps>>
       ELSE /\ \E reverseSteps \in 0..MaxSteps : target' = reverseSteps
            /\ g' = [createSolvedState(g) EXCEPT !.reverseSteps = <<>>]
            /\ pc' = "reverse"
            /\ ret' = Ret("createSolvedState", TRUE, 0, "")
            /\ step' = 0
            /\ actualSteps' = 0
    /\ UNCHANGED <<args, search, mem>>

NextRegenerate == Next \/ Regenerate

SpecRegenerate == Init /\ [][NextRegenerate]_vars

\* AddEmptyBottle(): one more bottle and N and emptyCount one higher; J and
\* collectedBottles stay as they are.  The model follows the additions up
\* to MaxN bottles
AddEmptyBottle ==
    /\ pc = "play"
    /\ g.N < MaxN
    /\ IF g.N >= maxBottles
       THEN /\ ret' = Ret("AddEmptyBottle", FALSE, 0, "")
            /\ UNCHANGED g
       ELSE /\ g' = [g EXCEPT !.bottles = Append(@, <<>>),
                              !.N = @ + 1,
                              !.emptyCount = @ + 1]
            /\ ret' = Ret("AddEmptyBottle", TRUE, 0, "")
    /\ UNCHANGED <<args, pc, target, step, actualSteps, search, mem>>

NextAdd == Next \/ AddEmptyBottle

SpecAdd == Init /\ [][NextAdd]_vars

\* ShuffleWater()
ShuffleWater ==
    /\ pc = "play"
    /\ g' \in ShuffleWaterResults(g)
    /\ ret' = Ret("ShuffleWater", TRUE, 0, "")
    /\ UNCHANGED <<args, pc, target, step, actualSteps, search, mem>>

\* generation, pours and shuffles
NextShuffle ==
    \/ New
    \/ GenerateStart
    \/ ReverseStep
    \/ ReverseFinish
    \/ GenerateRandom
    \/ Pour
    \/ ShuffleWater

SpecShuffle == Init /\ [][NextShuffle]_vars

\* a generated game without bags, and its slices
InitScratch ==
    /\ \E N \in 1..MaxN, M \in 1..MaxM, J \in 0..MaxN, K \in 1..MaxK,
          JarCount \in 0..MaxJars :
          /\ ~NewGameError(N, M, J, K, JarCount, MaxJarCap)
          /\ args = Args(N, M, J, K, JarCount, MaxJarCap, FALSE)
          /\ \E gm \in NewWaterBottleGame(N, M, J, K, JarCount, MaxJarCap, FALSE) :
                /\ ~generationParamsBad(gm)
                /\ \E waterPool \in shuffledPools(gm) :
                      g \in distributeWaterRandomly(gm, waterPool)
    /\ mem = generatedSlices(g)
    /\ pc = "play"
    /\ ret = Ret("generate", TRUE, 0, "")
    /\ target = 0
    /\ step = 0
    /\ actualSteps = 0
    /\ search = NoSearch

\* copyGameState(): the snapshot replaces the one made before
CopyGameState ==
    /\ pc = "play"
    /\ LET r == copySlices(mem.arrays, mem.live, <<>>)
       IN  mem' = collectGarbage([mem EXCEPT !.arrays = r.arrays,
                                             !.snap = r.hs,
                                             !.taken = g.bottles \o g.jars])
    /\ ret' = Ret("copyGameState", TRUE, 0, "")
    /\ UNCHANGED <<g, args, pc, target, step, actualSteps, search>>

\* a pour on the live game that is carried out, with its effect on the slices
PourOnSlices ==
    /\ pc = "play"
    /\ \E from \in 0..(g.N + g.JarCount - 1), to \in 0..(g.N + g.JarCount - 1) :
          LET r == pourInternal(g, from, to)
              p == pourSlices(mem.arrays, mem.live, from + 1, to + 1, r.moved)
          IN  /\ r.ok
              /\ CountersInRange(r.g)
              /\ g' = r.g
              /\ mem' = collectGarbage([mem EXCEPT !.arrays = p.arrays, !.live = p.hs])
              /\ ret' = Ret("pourInternal", TRUE, r.moved, "")
    /\ UNCHANGED <<args, pc, target, step, actualSteps, search>>

\* restoreGameState(state) with the snapshot: every live slice becomes a
\* copy of the snapshot's, read from the snapshot's arrays
RestoreGameState ==
    /\ pc = "play"
    /\ mem.snap # <<>>
    /\ LET r == copySlices(mem.arrays, mem.snap, <<>>)
           held == ContentsAll(mem.arrays, mem.snap)
           state == [bottles |-> SubSeq(held, 1, g.N),
                     jars |-> SubSeq(held, g.N + 1, Len(held))]
       IN  /\ g' = restoreGameState(g, state)
           /\ mem' = collectGarbage([mem EXCEPT !.arrays = r.arrays, !.live = r.hs])
    /\ ret' = Ret("restoreGameState", TRUE, 0, "")
    /\ UNCHANGED <<args, pc, target, step, actualSteps, search>>

\* checkSolvabilityWithSearch() up to its loop: initialState is a copy of
\* the bottles (lines 1457-1461); the snapshot is out of scope
SearchCopy ==
    /\ pc = "play"
    /\ g.JarCount = 0
    /\ LET r == copySlices(mem.arrays, mem.live, <<>>)
       IN  mem' = collectGarbage([mem EXCEPT !.arrays = r.arrays,
                                             !.snap = <<>>, !.taken = <<>>,
                                             !.current = r.hs, !.child = <<>>])
    /\ pc' = "expand"
    /\ ret' = Ret("copyState", TRUE, 0, "")
    /\ UNCHANGED <<g, args, target, step, actualSteps, search>>

\* one pass of the inner loop that finds a pour (lines 1496-1502): newBottles
\* is a copy of the dequeued state and tryPourInState pours in it
Expand ==
    /\ pc = "expand"
    /\ \E from \in 0..(g.N - 1), to \in 0..(g.N - 1) :
          LET c == copySlices(mem.arrays, mem.current, <<>>)
              bottles == ContentsAll(c.arrays, c.hs)
              t == tryPourInState(g, bottles, from, to)
              amount == Len(t.bottles[to + 1]) - Len(bottles[to + 1])
              p == pourSlices(c.arrays, c.hs, from + 1, to + 1, amount)
          IN  /\ from # to
              /\ t.ok
              /\ mem' = collectGarbage([mem EXCEPT !.arrays = p.arrays, !.child = p.hs])
              /\ ret' = Ret("tryPourInState", TRUE, amount, "")
    /\ UNCHANGED <<g, args, pc, target, step, actualSteps, search>>

\* a later iteration dequeues the state the expansion has appended
Dequeue ==
    /\ pc = "expand"
    /\ mem.child # <<>>
    /\ mem' = collectGarbage([mem EXCEPT !.current = mem.child, !.child = <<>>])
    /\ ret' = Ret("dequeue", TRUE, 0, "")
    /\ UNCHANGED <<g, args, pc, target, step, actualSteps, search>>

NextScratch ==
    \/ CopyGameState
    \/ PourOnSlices
    \/ RestoreGameState
    \/ SearchCopy
    \/ Expand
    \/ Dequeue

SpecScratch == InitScratch /\ [][NextScratch]_vars

NextMoves == Next \/ PossibleMoves

SpecCollect == Init /\ [][NextCollect]_vars

SpecMoves == Init /\ [][NextMoves]_vars

(***************************************************************************)
(* Vocabulary of the properties                                            *)
(***************************************************************************)
\* the step is a call Pour(from, to) and ret' is what it returned
PourCall(from, to) ==
    /\ pc = "play"
    /\ ret'.op = "Pour"
    /\ ret'.ok = (pourRejection(g, from, to) = "none")
    /\ [ok |-> ret'.ok, moved |-> ret'.moved, g |-> g'] \in
           pourWithType(g, from, to, UserOperation)

ValidIndex(gm, c) == c >= 0 /\ c <= gm.N + gm.JarCount - 1

IsBottle(gm, c) == c >= 0 /\ c < gm.N

Retired(gm, c) == IsBottle(gm, c) /\ gm.collectedBottles[c + 1]

RetiredCount(gm) ==
    Cardinality({i \in 1..Len(gm.collectedBottles) : gm.collectedBottles[i]})

\* units in the bottles that are not retired, and in the jars
UnitsHeld(gm) ==
    SumLen([i \in 1..Len(gm.bottles) |->
              IF gm.collectedBottles[i] THEN <<>> ELSE gm.bottles[i]])
    + SumLen(gm.jars)

\* length of the maximal block of the top colour at the top of b
Run(b) ==
    IF Len(b) = 0 THEN 0
    ELSE CHOOSE n \in 1..Len(b) :
           /\ \A i \in (Len(b) - n + 1)..Len(b) : b[i] = b[Len(b)]
           /\ (n < Len(b) => b[Len(b) - n] # b[Len(b)])

Space(gm, c) ==
    (IF IsBottle(gm, c) THEN gm.M ELSE gm.JarCapacity) - Len(Container(gm, c))

Complete(gm, b) == Len(b) = gm.M /\ \A i, j \in 1..Len(b) : b[i] = b[j]

(***************************************************************************)
(* C1  Volume conservation: in every state of a generated game, whatever   *)
(* pours were made, the units in non-retired bottles and in jars plus M    *)
(* times the number of retired bottles equal (N-J)*M.                      *)
(***************************************************************************)
C1_VolumeConserved ==
    pc = "play" => UnitsHeld(g) + g.M * RetiredCount(g) = (g.N - g.J) * g.M

C1_Witness ==
    /\ pc = "play"
    /\ ret.op = "Pour" /\ ret.ok
    /\ RetiredCount(g) > 0
    /\ \E i \in 1..Len(g.jars) : Len(g.jars[i]) > 0

(***************************************************************************)
(* C2  Round-trip law: at every point at which generateByReverseWithSteps  *)
(* can stop, and in the state it returns, performing the forward pour      *)
(* To -> From for the logged moves from last to first succeeds every time  *)
(* and ends with every bottle as createSolvedState laid it out.            *)
(***************************************************************************)
\* the forward pours To -> From for moves i, i-1, ..., 1 of the log
RECURSIVE ForwardReplay(_, _, _)
ForwardReplay(gm, log, i) ==
    IF i = 0 THEN [ok |-> TRUE, g |-> gm]
    ELSE LET r == pourInternal(gm, log[i].To, log[i].From)
         IN  IF r.ok THEN ForwardReplay(r.g, log, i - 1)
             ELSE [ok |-> FALSE, g |-> r.g]

FreshGame(gm) ==
    CHOOSE f \in NewWaterBottleGame(gm.N, gm.M, gm.J, gm.K, gm.JarCount,
                                    gm.JarCapacity, gm.UseBags) : TRUE

GeneratedByReverse ==
    \/ pc = "reverse"
    \/ (pc = "play" /\ ret.op = "generate" /\ ~g.UseBags)

C2_RoundTrip ==
    /\ (pc = "failed" => generationParamsBad(g))
    /\ GeneratedByReverse =>
          LET r == ForwardReplay(g, g.reverseSteps, Len(g.reverseSteps))
          IN  /\ r.ok
              /\ r.g.bottles = createSolvedState(FreshGame(g)).bottles

C2_Witness ==
    /\ pc = "play" /\ ret.op = "generate" /\ ret.ok
    /\ Len(g.reverseSteps) = 2
    /\ \E i \in 1..Len(g.bottles) : ~isSingleColor(g.bottles[i])

(***************************************************************************)
(* C3  A Pour(from, to) that is not rejected returns min(run, space) >= 1, *)
(* takes that many units off the source's top and leaves the units below   *)
(* in place.  As amended: the units are on the destination's top, above    *)
(* what it held, unless in bag mode they completed the destination and the *)
(* collection step of the same call retired it, leaving it empty.          *)
(***************************************************************************)
PouredOnto(gm, from, to, n) ==
    Container(gm, to) \o Repeat(Top(Container(gm, from)), n)

PourCounts(from, to) ==
    LET n == Min(Run(Container(g, from)), Space(g, to))
    IN  /\ ret'.moved = n
        /\ n >= 1
        /\ Container(g', from) = SubSeq(Container(g, from), 1, Len(Container(g, from)) - n)

C3_PourMoves ==
    [][\A from \in Indices, to \in Indices :
         (ret'.op = "Pour" /\ ret'.ok /\ PourCall(from, to)) =>
            /\ PourCounts(from, to)
            /\ \/ Container(g', to) = PouredOnto(g, from, to, ret'.moved)
               \/ /\ g.UseBags
                  /\ Complete(g, PouredOnto(g, from, to, ret'.moved))
                  /\ ~Retired(g, to) /\ Retired(g', to)
                  /\ Container(g', to) = <<>>]_vars

\* the claim as written: the units are on the destination after the call
C3_AsWritten ==
    [][\A from \in Indices, to \in Indices :
         (ret'.op = "Pour" /\ ret'.ok /\ PourCall(from, to)) =>
            /\ PourCounts(from, to)
            /\ Container(g', to) = PouredOnto(g, from, to, ret'.moved)]_vars

\* a pour of two units into a jar or bottle with room for them
C3_Witness ==
    /\ pc = "play"
    /\ ret.op = "Pour" /\ ret.ok /\ ret.moved = 2
    /\ \E i \in 1..Len(g.bottles) : Len(g.bottles[i]) = 1

(***************************************************************************)
(* C4  Pour(from, to) is rejected exactly when from = to, or an index is   *)
(* outside 0..N+JarCount-1, or (bag mode) from or to is a retired bottle,  *)
(* or the source is empty, or the destination is at capacity, or the       *)
(* destination is non-empty with a top colour other than the source's.     *)
(***************************************************************************)
MustReject(gm, from, to) ==
    \/ from = to
    \/ ~ValidIndex(gm, from) \/ ~ValidIndex(gm, to)
    \/ (gm.UseBags /\ (Retired(gm, from) \/ Retired(gm, to)))
    \/ Len(Container(gm, from)) = 0
    \/ Space(gm, to) = 0
    \/ /\ Len(Container(gm, to)) > 0
       /\ Top(Container(gm, to)) # Top(Container(gm, from))

C4_RejectedExactlyWhen ==
    pc = "play" =>
       \A from \in Indices, to \in Indices :
          \A r \in pourWithType(g, from, to, UserOperation) :
             r.ok = ~MustReject(g, from, to)

\* a pour rejected for its colours only, after an accepted one
C4_Witness ==
    /\ pc = "play"
    /\ ret.op = "Pour" /\ ~ret.ok
    /\ \E from \in Indices, to \in Indices :
          /\ from # to /\ ValidIndex(g, from) /\ ValidIndex(g, to)
          /\ Len(Container(g, from)) > 0
          /\ Len(Container(g, to)) > 0 /\ Space(g, to) > 0
          /\ Top(Container(g, to)) # Top(Container(g, from))

(***************************************************************************)
(* C5  A rejected Pour returns (false, 0) and changes nothing: contents,   *)
(* collector bindings, retired flags, emptyCount and emptyJarCount (every  *)
(* field of the game) are as they were.                                    *)
(***************************************************************************)
C5_RejectedChangesNothing ==
    [][(pc = "play" /\ ret'.op = "Pour" /\ ~ret'.ok) =>
          (ret'.moved = 0 /\ g' = g)]_vars

\* a rejected pour on a game with bound collectors and a retired bottle
C5_Witness ==
    /\ pc = "play"
    /\ ret.op = "Pour" /\ ~ret.ok /\ ret.moved = 0
    /\ g.UseBags /\ RetiredCount(g) > 0
    /\ \E i \in 1..BagSlots : g.bags[i] # NoBag

(***************************************************************************)
(* C6  When an attempt violates several rejection conditions at once, the  *)
(* reason GetPourFailureReason reports is the first violated one in a      *)
(* fixed priority order.  As amended the order is: invalid index, same     *)
(* container, retired container, source empty, destination full, colour    *)
(* mismatch (the claim puts same container before invalid index).          *)
(***************************************************************************)
Violates(gm, from, to, reason) ==
    LET valid == ValidIndex(gm, from) /\ ValidIndex(gm, to)
    IN  CASE reason = "same container" -> from = to
          [] reason = "invalid index" -> ~valid
          [] reason = "collected bottle" ->
                 valid /\ gm.UseBags /\ (Retired(gm, from) \/ Retired(gm, to))
          [] reason = "source empty" -> valid /\ Len(Container(gm, from)) = 0
          [] reason = "target full" -> valid /\ Space(gm, to) = 0
          [] reason = "color mismatch" ->
                 /\ valid
                 /\ Len(Container(gm, from)) > 0 /\ Len(Container(gm, to)) > 0
                 /\ Top(Container(gm, from)) # Top(Container(gm, to))

\* the first reason of the order that the attempt violates
FirstViolated(gm, from, to, order) ==
    LET hit == {i \in 1..Len(order) : Violates(gm, from, to, order[i])}
    IN  IF hit = {} THEN "unknown"
        ELSE order[CHOOSE i \in hit : \A j \in hit : i <= j]

OrderOfCode ==
    <<"invalid index", "same container", "collected bottle", "source empty",
      "target full", "color mismatch">>

OrderOfClaim ==
    <<"same container", "invalid index", "collected bottle", "source empty",
      "target full", "color mismatch">>

\* in every state of play, for every pair of arguments, the reason returned
C6_ReasonPriority ==
    pc = "play" =>
       \A from \in Indices, to \in Indices :
          GetPourFailureReason(g, from, to) = FirstViolated(g, from, to, OrderOfCode)

C6_AsWritten ==
    pc = "play" =>
       \A from \in Indices, to \in Indices :
          GetPourFailureReason(g, from, to) = FirstViolated(g, from, to, OrderOfClaim)

\* a reported "source empty" in a state with an attempt whose source is
\* empty and whose destination is full
C6_Witness ==
    /\ pc = "play"
    /\ ret.op = "GetPourFailureReason" /\ ret.reason = "source empty"
    /\ \E from \in Indices, to \in Indices :
          /\ Violates(g, from, to, "source empty")
          /\ Violates(g, from, to, "target full")
          /\ ~Violates(g, from, to, "same container")
          /\ ~Violates(g, from, to, "collected bottle")

(***************************************************************************)
(* C7  Pour legality: no bottle ever holds more than M units and no jar    *)
(* more than JarCapacity, and a successful pour puts its units only on a   *)
(* destination that was empty or whose top unit had the poured colour.     *)
(***************************************************************************)
WithinCapacity ==
    /\ \A i \in 1..Len(g.bottles) : Len(g.bottles[i]) <= g.M
    /\ \A i \in 1..Len(g.jars) : Len(g.jars[i]) <= g.JarCapacity

C7_PourLegality ==
    /\ WithinCapacity
    /\ pc = "play" =>
          \A from \in Indices, to \in Indices :
             \A r \in pourWithType(g, from, to, UserOperation) :
                r.ok => \/ Len(Container(g, to)) = 0
                        \/ Top(Container(g, to)) = Top(Container(g, from))

\* a pour that filled a jar, and one that put units on units of their colour
C7_Witness ==
    /\ pc = "play"
    /\ ret.op = "Pour" /\ ret.ok
    /\ \E i \in 1..Len(g.jars) : Len(g.jars[i]) = g.JarCapacity
    /\ \E i \in 1..Len(g.bottles) :
          Len(g.bottles[i]) = g.M /\ g.M > ret.moved /\ isSingleColor(g.bottles[i])

(***************************************************************************)
(* C8  IsWon is true on the state createSolvedState produces from a fresh  *)
(* game, for every valid parameter set, with and without bags.             *)
(***************************************************************************)
C8_SolvedIsWon ==
    (pc = "solved" /\ ret.op = "IsWon") => ret.ok

C8_Witness ==
    /\ pc = "solved" /\ ret.op = "IsWon" /\ ret.ok
    /\ g.UseBags /\ g.K = 2 /\ g.J > 0 /\ g.JarCount > 0

(***************************************************************************)
(* C9  Without bags IsWon is true exactly when every non-empty bottle      *)
(* holds M units of one colour and the non-empty bottles number N-J; and   *)
(* IsWon changes no state.                                                 *)
(***************************************************************************)
NonEmptyBottles(gm) == {i \in 1..Len(gm.bottles) : Len(gm.bottles[i]) > 0}

WonWithoutBags(gm) ==
    /\ \A i \in NonEmptyBottles(gm) : Complete(gm, gm.bottles[i])
    /\ Cardinality(NonEmptyBottles(gm)) = gm.N - gm.J

C9_WonWithoutBags ==
    /\ []((ret.op = "IsWon" /\ ~g.UseBags) => (ret.ok = WonWithoutBags(g)))
    /\ [][ret'.op = "IsWon" => g' = g]_vars

\* IsWon answered false on full single-coloured bottles short of N-J
C9_Witness ==
    /\ pc = "play" /\ ret.op = "IsWon" /\ ~ret.ok /\ ~g.UseBags
    /\ \A i \in NonEmptyBottles(g) : Complete(g, g.bottles[i])

(***************************************************************************)
(* C10  With bags IsWon is true exactly when no unit is left in a          *)
(* partially filled bottle, a mixed bottle or a jar: every non-retired     *)
(* bottle is empty or complete and every jar is empty.                     *)
(***************************************************************************)
WonWithBags(gm) ==
    /\ \A i \in 1..Len(gm.bottles) :
          gm.collectedBottles[i] \/ Len(gm.bottles[i]) = 0
             \/ Complete(gm, gm.bottles[i])
    /\ \A i \in 1..Len(gm.jars) : Len(gm.jars[i]) = 0

C10_WonWithBags ==
    (ret.op = "IsWon" /\ g.UseBags) => (ret.ok = WonWithBags(g))

\* IsWon answered false only because of a unit in a jar
C10_Witness ==
    /\ pc = "play" /\ ret.op = "IsWon" /\ ~ret.ok /\ g.UseBags
    /\ \A i \in 1..Len(g.bottles) :
          g.collectedBottles[i] \/ Len(g.bottles[i]) = 0 \/ Complete(g, g.bottles[i])
    /\ \E i \in 1..Len(g.jars) : Len(g.jars[i]) > 0

(***************************************************************************)
(* C11  NewWaterBottleGame returns an error and no game whenever N <= J,   *)
(* M <= 0, K <= 0, JarCount < 0, or JarCount > 0 with JarCapacity <= 0;    *)
(* for every other input it returns a game whose N, M, J, K are the        *)
(* arguments, with N empty bottles, JarCount empty jars, emptyCount = J    *)
(* and no bottle retired.                                                  *)
(***************************************************************************)
MustFail(a) ==
    \/ a.N <= a.J
    \/ a.M <= 0
    \/ a.K <= 0
    \/ a.JarCount < 0
    \/ (a.JarCount > 0 /\ a.JarCapacity <= 0)

FreshGameOf(a) ==
    /\ pc = "new"
    /\ g.N = a.N /\ g.M = a.M /\ g.J = a.J /\ g.K = a.K
    /\ Len(g.bottles) = a.N
    /\ \A i \in 1..Len(g.bottles) : g.bottles[i] = <<>>
    /\ Len(g.jars) = a.JarCount
    /\ \A i \in 1..Len(g.jars) : g.jars[i] = <<>>
    /\ g.emptyCount = a.J
    /\ \A i \in 1..Len(g.collectedBottles) : ~g.collectedBottles[i]

\* violated by N = -1, J = -2: no check fails and make([]Bottle, -1) panics
C11_ErrorOrFreshGame ==
    ret.op = "New" =>
        IF MustFail(args) THEN pc = "error" /\ g = NoGame ELSE FreshGameOf(args)

(***************************************************************************)
(* C12  The colour bound K <= N-J is enforced by generation, not by        *)
(* creation: NewWaterBottleGame returns an error only under its own        *)
(* parameter checks, never because K > N-J; generateInitialState returns   *)
(* an error on a fresh game with K > N-J and leaves every bottle empty,    *)
(* so every game that has been generated satisfies K <= N-J.               *)
(***************************************************************************)
ColourBoundBroken(a) == a.K > a.N - a.J

AllBottlesEmpty(gm) == \A i \in 1..Len(gm.bottles) : gm.bottles[i] = <<>>

C12_BoundAtGeneration ==
    /\ (ret.op = "New" /\ pc = "error") => MustFail(args)
    /\ (ret.op = "New" /\ ColourBoundBroken(args) /\ ~MustFail(args))
          => pc \in {"new", "panic"}
    /\ (pc = "new" /\ ColourBoundBroken(g)) =>
          /\ ENABLED (GenerateStart \/ GenerateRandom)
          /\ ~ENABLED ((GenerateStart \/ GenerateRandom) /\ pc' # "failed")
    /\ (pc = "failed" /\ ret.op = "generate") =>
          ColourBoundBroken(g) /\ AllBottlesEmpty(g)
    /\ pc \in {"solved", "reverse", "play"} => ~ColourBoundBroken(g)

\* the claim as written: creation itself refuses K > N-J
C12_AsWritten ==
    (ret.op = "New" /\ ColourBoundBroken(args)) => (pc = "error" /\ g = NoGame)

\* a game created with more colours than bottles to fill, refused by the
\* random generator of bag mode
C12_Witness ==
    /\ pc = "failed" /\ ret.op = "generate" /\ ~ret.ok
    /\ g.UseBags /\ g.K = 2 /\ g.N - g.J = 1 /\ g.J >= 0
    /\ args.K = g.K /\ args.N = g.N /\ args.J = g.J

(***************************************************************************)
(* C13  NewWaterBottleGame returns an error whenever J < 0, so no game     *)
(* exists whose N-J bottles to fill exceed its N bottles.                  *)
(***************************************************************************)
\* violated by N = 2, J = -1: the game is returned with emptyCount = -1
C13_NegativeJRejected ==
    /\ (ret.op = "New" /\ args.J < 0) => (pc = "error" /\ g = NoGame)
    /\ pc = "new" => g.N - g.J <= Len(g.bottles)

(***************************************************************************)
(* C14  After generateInitialState succeeds on a fresh game (reverse       *)
(* generation without bags, random generation with bags) the bottles hold  *)
(* (N-J)*M units in total and the units of every colour number a multiple  *)
(* of M.                                                                   *)
(***************************************************************************)
UnitPositions(gm) ==
    UNION {{<<i, j>> : j \in 1..Len(gm.bottles[i])} : i \in 1..Len(gm.bottles)}

ColourUnits(gm, c) ==
    Cardinality({p \in UnitPositions(gm) : gm.bottles[p[1]][p[2]] = c})

JustGenerated == pc = "play" /\ ret.op = "generate" /\ ret.ok

\* violated in bag mode by N = 3, J = 0, M = 2, K = 2: createColorPool gives
\* each colour 6 \div 2 = 3 units
C14_GeneratedQuotas ==
    JustGenerated =>
        /\ SumLen(g.bottles) = (g.N - g.J) * g.M
        /\ \A c \in 0..(g.K - 1) : ColourUnits(g, c) % g.M = 0

(***************************************************************************)
(* C15  In bag mode a retired bottle stays retired and empty under every   *)
(* later pour, and every pour that names it as source or destination is    *)
(* rejected.                                                               *)
(***************************************************************************)
RetiredBottles(gm) == {i \in 1..Len(gm.bottles) : gm.UseBags /\ gm.collectedBottles[i]}

PourRejected(from, to) ==
    \A r \in pourWithType(g, from, to, UserOperation) : ~r.ok /\ r.moved = 0

C15_RetiredForGood ==
    /\ [](pc = "play" =>
             \A i \in RetiredBottles(g) :
                /\ g.bottles[i] = <<>>
                /\ \A other \in Indices :
                      PourRejected(i - 1, other) /\ PourRejected(other, i - 1))
    /\ [][pc = "play" =>
             \A i \in RetiredBottles(g) :
                g'.collectedBottles[i] /\ g'.bottles[i] = <<>>]_vars

\* a bottle was retired by an earlier pour and the latest pour was rejected
C15_Witness ==
    /\ pc = "play" /\ g.UseBags
    /\ ret.op = "Pour" /\ ~ret.ok
    /\ RetiredBottles(g) # {}
    /\ \E i \in 1..Len(g.bottles) : ~g.collectedBottles[i] /\ g.bottles[i] # <<>>

(***************************************************************************)
(* C16  In bag mode a second call of checkAndCollectBottles directly after *)
(* a first one, with no pour in between, retires no bottle and changes no  *)
(* collector binding.                                                      *)
(***************************************************************************)
\* violated after a pour that leaves two colours on the board: the second call
\* reads them from a map in another order and swaps the colours of two bags
C16_SecondCallNoOp ==
    [][ret'.op = "checkAndCollectBottles" =>
          /\ g'.collectedBottles = g.collectedBottles
          /\ g'.bottles = g.bottles
          /\ g'.bags = g.bags]_vars

(***************************************************************************)
(* C17  CheckPossibleMoves leaves every bottle and jar with its contents   *)
(* and the collector bindings and retired flags unchanged, and the count   *)
(* it returns is the number of ordered pairs (from, to) of distinct        *)
(* container indices for which a pour would succeed in that state.         *)
(***************************************************************************)
ContainerIndices(gm) == 0..(gm.N + gm.JarCount - 1)

SucceedingPours(gm) ==
    {p \in ContainerIndices(gm) \X ContainerIndices(gm) :
        /\ p[1] # p[2]
        /\ \E r \in pourWithType(gm, p[1], p[2], UserOperation) : r.ok}

C17_CheckMovesPure ==
    [][ret'.op = "CheckPossibleMoves" =>
          /\ g'.bottles = g.bottles
          /\ g'.jars = g.jars
          /\ g'.bags = g.bags
          /\ g'.collectedBottles = g.collectedBottles
          /\ ret'.moved = Cardinality(SucceedingPours(g))
          /\ ret'.ok = (ret'.moved > 0)]_vars

\* the call counted several moves on a bag-mode board with a retired bottle
C17_Witness ==
    /\ pc = "play" /\ g.UseBags
    /\ ret.op = "CheckPossibleMoves" /\ ret.ok /\ ret.moved >= 2
    /\ RetiredBottles(g) # {}

(***************************************************************************)
(* C18  When the search has dequeued its whole budget of 1000 states       *)
(* without meeting a won state, checkSolvabilityWithSearch returns true.   *)
(***************************************************************************)
BudgetExhausted ==
    /\ pc = "searched"
    /\ ret.op = "checkSolvabilityWithSearch"
    /\ search.statesChecked = maxStates
    /\ ~search.won

\* violated by N = 5, J = 2, M = 2, K = 2 on the board [0,0] [0,1] [1,1]:
\* the loop ends with statesChecked = 1000 and the call returns 1000 < 1000
C18_BudgetMeansTrue == BudgetExhausted => ret.ok

(***************************************************************************)
(* C19  Pour is deterministic: from one game state the same call returns   *)
(* the same result and leaves the same state, in bag mode including the    *)
(* collector bindings and retired flags its collection step produces.      *)
(***************************************************************************)
PourOutcomes(from, to) == pourWithType(g, from, to, UserOperation)

\* violated in bag mode by a pour that leaves two colours on the board: the
\* collection step binds the bags in the iteration order of a Go map
C19_PourDeterministic ==
    pc = "play" =>
        \A from \in Indices, to \in Indices :
           \A r1 \in PourOutcomes(from, to), r2 \in PourOutcomes(from, to) : r1 = r2

(***************************************************************************)
(* C20  generateByReverseWithSteps always terminates, logs at most         *)
(* target_steps moves, and stops early without an error when no reverse    *)
(* operation is found; when not even the first step is accepted it returns *)
(* no error, the solved state and an empty log.                            *)
(***************************************************************************)
ReverseReturns == pc = "reverse" /\ pc' # "reverse"

C20_ReverseTerminates ==
    /\ [](pc = "reverse" =>
             /\ step <= target
             /\ actualSteps = step
             /\ Len(g.reverseSteps) = actualSteps)
    /\ [][ReverseReturns =>
             /\ pc' = "play" /\ ret'.op = "generate" /\ ret'.ok
             /\ Len(g'.reverseSteps) <= target
             /\ ret'.moved = Len(g'.reverseSteps)
             /\ actualSteps = 0 =>
                   /\ g'.reverseSteps = <<>>
                   /\ g'.bottles = createSolvedState(FreshGame(g)).bottles]_vars
    /\ (pc = "reverse" ~> pc = "play")

\* the loop broke out in its first iteration: every bottle of the solved
\* state is full, so no backward transfer has a target
C20_Witness ==
    /\ pc = "play" /\ ret.op = "generate" /\ ret.ok
    /\ ret.reason = "limit reached" /\ ret.moved = 0
    /\ g.reverseSteps = <<>>
    /\ g.N >= 2 /\ g.K = 2
    /\ g.bottles = createSolvedState(FreshGame(g)).bottles

(***************************************************************************)
(* C21  Emptiness counters stay exact: after any sequence of pours         *)
(* emptyCount is the number of bottles of length 0 and emptyJarCount the   *)
(* number of jars of length 0.                                             *)
(***************************************************************************)
C21_CountersExact ==
    pc = "play" =>
        /\ g.emptyCount = CountEmpty(g.bottles)
        /\ g.emptyJarCount = CountEmpty(g.jars)

(***************************************************************************)
(* C22  A backward step is logged and committed only if the internal       *)
(* forward pour destination -> source, made on the state after the         *)
(* backward transfer, succeeds, moves exactly pourAmount units and gives   *)
(* back the contents held before the transfer; a call that accepts no      *)
(* candidate leaves the state as it was and logs nothing.                  *)
(***************************************************************************)
\* the bottles after m.Amount units of the top of m.From are put onto m.To
BackwardTransfer(gm, m) ==
    [gm.bottles EXCEPT
        ![m.From + 1] = SubSeq(@, 1, Len(@) - m.Amount),
        ![m.To + 1] = @ \o Repeat(m.Color, m.Amount)]

ForwardUndoes(before, after, m) ==
    \A r \in pourWithType(after, m.To, m.From, InternalOperation) :
        /\ r.ok
        /\ r.moved = m.Amount
        /\ r.g.bottles = before.bottles
        /\ r.g.jars = before.jars

\* some candidate of the next call passes the test, or fails it
CandidateRejected(gm) ==
    \E c \in reverseChoices(gm) : \E t \in reverseTargets(gm, c) :
        ~ForwardUndoes(gm, performSimplePour(gm, c.source, t, c.amount),
                       [From |-> c.source, To |-> t, Amount |-> c.amount,
                        Color |-> Top(gm.bottles[c.source + 1])])

C22_CommitOnlyReversible ==
    /\ [](pc = "reverse" =>
             \A g1 \in tryReverseFailure(g) :
                 /\ g1.bottles = g.bottles
                 /\ g1.jars = g.jars
                 /\ g1.reverseSteps = g.reverseSteps)
    /\ [][pc = "reverse" /\ pc' = "reverse" =>
             LET m == g'.reverseSteps[Len(g'.reverseSteps)]
             IN  /\ g'.reverseSteps = Append(g.reverseSteps, m)
                 /\ m.From # m.To
                 /\ m.Amount \in 1..Run(g.bottles[m.From + 1])
                 /\ m.Color = Top(g.bottles[m.From + 1])
                 /\ g'.bottles = BackwardTransfer(g, m)
                 /\ g'.jars = g.jars
                 /\ ForwardUndoes(g, g', m)]_vars
    /\ [][pc = "reverse" /\ pc' # "reverse" =>
             g'.reverseSteps = g.reverseSteps]_vars

\* one step is committed and a candidate of the next call fails the test
C22_Witness ==
    /\ pc = "reverse"
    /\ Len(g.reverseSteps) = 1
    /\ step < target
    /\ CandidateRejected(g)
    /\ tryReverseFailure(g) # {}

(***************************************************************************)
(* C23  On a freshly created game with K <= N-J, createSolvedState fills   *)
(* bottles 0..N-J-1 to capacity M, each with one colour, in colour order:  *)
(* each colour gets floor((N-J)/K) bottles and the first (N-J) mod K       *)
(* colours one more; bottles N-J..N-1 are empty and emptyCount = J.        *)
(***************************************************************************)
BottlesOfColour(gm, c) ==
    {i \in 1..Len(gm.bottles) : gm.bottles[i] = Repeat(c, gm.M)}

SolvedLayout(gm) ==
    /\ Len(gm.bottles) = gm.N
    /\ \A i \in 1..gm.N :
          IF i <= gm.N - gm.J
          THEN \E c \in 0..(gm.K - 1) : gm.bottles[i] = Repeat(c, gm.M)
          ELSE gm.bottles[i] = <<>>
    /\ \A i, j \in 1..(gm.N - gm.J) : i < j => gm.bottles[i][1] <= gm.bottles[j][1]
    /\ \A c \in 0..(gm.K - 1) :
          Cardinality(BottlesOfColour(gm, c)) =
              ((gm.N - gm.J) \div gm.K) + (IF c < (gm.N - gm.J) % gm.K THEN 1 ELSE 0)
    /\ gm.emptyCount = gm.J

CreateSolvedCalled ==
    pc = "new" /\ ret'.op = "createSolvedState" /\ g.K <= g.N - g.J

C23_SolvedLayout ==
    [][CreateSolvedCalled => pc' \in {"solved", "reverse"} /\ SolvedLayout(g')]_vars

(***************************************************************************)
(* C24  When validateReverseSteps succeeds it leaves the bottles and jars  *)
(* of the scrambled state it started from and the log unchanged; when a    *)
(* replayed pour is rejected, or the state after the full replay is not    *)
(* won, it returns an error and so does the generation call.               *)
(***************************************************************************)
ValidationReturns == pc = "reverse" /\ pc' # "reverse" /\ actualSteps > 0

ReplayPasses(gm) ==
    LET r == ForwardReplay(gm, gm.reverseSteps, Len(gm.reverseSteps))
    IN  r.ok /\ WonWithoutBags(r.g)

C24_ValidationOutcome ==
    [][ValidationReturns =>
          /\ ret'.op = "generate"
          /\ ret'.ok =>
                /\ pc' = "play"
                /\ g'.bottles = g.bottles
                /\ g'.jars = g.jars
                /\ g'.reverseSteps = g.reverseSteps
          /\ ~ReplayPasses(g) => ~ret'.ok /\ pc' = "failed"]_vars

\* a generation call that returned an error from the validation of two steps
C24_Witness ==
    /\ pc = "failed" /\ ret.op = "generate" /\ ~ret.ok
    /\ ~generationParamsBad(g)
    /\ Len(g.reverseSteps) = 2

(***************************************************************************)
(* C25  Internal pours never touch the collection state: a pourInternal    *)
(* call, and so every pour of CheckPossibleMoves, leaves the three bags    *)
(* and all retired flags unchanged in bag mode, even when it completes a   *)
(* bottle whose colour a bag holds; only a successful user Pour runs the   *)
(* collection step.                                                        *)
(***************************************************************************)
InternalPours(gm, from, to) == pourWithType(gm, from, to, InternalOperation)

\* the pour from -> to fills bottle `to` with one colour, and a bag holds it
CompletesBoundBottle(gm, r, to) ==
    /\ r.ok
    /\ IsBottle(gm, to)
    /\ Complete(r.g, r.g.bottles[to + 1])
    /\ \E bagIdx \in 1..BagSlots : gm.bags[bagIdx] = r.g.bottles[to + 1][1]

C25_InternalPourNoCollection ==
    /\ [](pc = "play" /\ g.UseBags =>
             \A from \in Indices, to \in Indices :
                 \A r \in InternalPours(g, from, to) :
                     /\ r.g.bags = g.bags
                     /\ r.g.collectedBottles = g.collectedBottles)
    /\ [][pc = "play" /\ <<g'.bags, g'.collectedBottles>> # <<g.bags, g.collectedBottles>>
             => ret'.op = "Pour" /\ ret'.ok]_vars

C25_Witness ==
    /\ pc = "play" /\ g.UseBags
    /\ \E from \in Indices, to \in Indices :
          \E r \in InternalPours(g, from, to) :
              /\ CompletesBoundBottle(g, r, to)
              /\ ~r.g.collectedBottles[to + 1]
              /\ r.g.bags = g.bags

(***************************************************************************)
(* C26  After every successful user Pour in bag mode the collection loop   *)
(* has reached its fixed point: no bottle that is not retired is both      *)
(* complete (M units of one colour) and of a colour a bag holds.           *)
(***************************************************************************)
ActiveBagColours(gm) == {gm.bags[i] : i \in 1..BagSlots} \ {NoBag}

StillCollectable(gm) ==
    {i \in 1..Len(gm.bottles) :
        /\ ~gm.collectedBottles[i]
        /\ Complete(gm, gm.bottles[i])
        /\ gm.bottles[i][1] \in ActiveBagColours(gm)}

AfterUserPour == pc = "play" /\ g.UseBags /\ ret.op = "Pour" /\ ret.ok

C26_CollectionFixedPoint == AfterUserPour => StillCollectable(g) = {}

\* the pour has retired a bottle, and water and an active bag remain
C26_Witness ==
    /\ AfterUserPour
    /\ RetiredCount(g) >= 1
    /\ UnitsHeld(g) > 0
    /\ ActiveBagColours(g) # {}

(***************************************************************************)
(* C27  checkAndCollectBottles retires a bottle only if at that moment it  *)
(* is not retired, holds exactly M units of one colour, and a bag holds    *)
(* that colour; retiring sets its flag and empties it, and leaves N, the   *)
(* index of every bottle, and every other bottle and jar unchanged.        *)
(***************************************************************************)
NewlyRetired(before, after) ==
    {i \in 1..Len(after.bottles) :
        after.collectedBottles[i] /\ ~before.collectedBottles[i]}

\* what one pass may do to the state h it starts in
PassRetiresOnlyBound(h, after) ==
    /\ after.N = h.N
    /\ Len(after.bottles) = Len(h.bottles)
    /\ Len(after.collectedBottles) = Len(h.collectedBottles)
    /\ after.jars = h.jars
    /\ \A i \in 1..Len(h.bottles) :
          IF i \in NewlyRetired(h, after)
          THEN /\ Complete(h, h.bottles[i])
               /\ h.bottles[i][1] \in ActiveBagColours(h)
               /\ after.bottles[i] = <<>>
          ELSE /\ after.bottles[i] = h.bottles[i]
               /\ after.collectedBottles[i] = h.collectedBottles[i]

\* what the whole call may do to the state g1 the transfer has left
CallRetiresOnlyComplete(g1, after) ==
    /\ after.N = g1.N
    /\ Len(after.bottles) = Len(g1.bottles)
    /\ after.jars = g1.jars
    /\ \A i \in 1..Len(g1.bottles) :
          IF i \in NewlyRetired(g1, after)
          THEN Complete(g1, g1.bottles[i]) /\ after.bottles[i] = <<>>
          ELSE /\ after.bottles[i] = g1.bottles[i]
               /\ after.collectedBottles[i] = g1.collectedBottles[i]

C27_RetiresOnlyBoundComplete ==
    pc = "play" /\ g.UseBags =>
        \A from \in Indices, to \in Indices :
            \A r \in InternalPours(g, from, to) :
                r.ok =>
                    /\ \A h \in passStates({r.g}, {}) :
                          PassRetiresOnlyBound(h, collectBottles(h))
                    /\ \A after \in checkAndCollectBottles(r.g) :
                          CallRetiresOnlyComplete(r.g, after)

\* a pour after which the call retires a bottle and leaves water elsewhere
C27_Witness ==
    /\ pc = "play" /\ g.UseBags
    /\ \E from \in Indices, to \in Indices :
          \E r \in InternalPours(g, from, to) :
              /\ r.ok
              /\ \E after \in checkAndCollectBottles(r.g) :
                    /\ NewlyRetired(r.g, after) # {}
                    /\ UnitsHeld(after) > 0

(***************************************************************************)
(* C28  After updateBagColors the number of active bags is min(3, number   *)
(* of distinct colours in the bottles that are not retired and the jars,   *)
(* units left there divided by M); the active bags are in the lowest slots *)
(* and every other slot is -1, so at most 3 bags are ever active.          *)
(***************************************************************************)
ColoursPresent(gm) ==
    {c \in 0..(gm.K - 1) :
        \/ \E i \in 1..Len(gm.bottles) :
              ~gm.collectedBottles[i] /\ c \in Range(gm.bottles[i])
        \/ \E j \in 1..Len(gm.jars) : c \in Range(gm.jars[j])}

ActiveSlots(gm) == {i \in 1..Len(gm.bags) : gm.bags[i] # NoBag}

ActiveBagsAsClaimed(gm) ==
    LET n == Min(3, Min(Cardinality(ColoursPresent(gm)), UnitsHeld(gm) \div gm.M))
    IN  /\ Len(gm.bags) = 3
        /\ ActiveSlots(gm) = 1..n
        /\ \A i \in 1..n : gm.bags[i] \in ColoursPresent(gm)

\* the states updateBagColors has just run in: the end of generation and
\* the end of the collection step of a successful pour
AfterUpdateBagColors ==
    /\ pc = "play" /\ g.UseBags
    /\ ret.op = "generate" \/ (ret.op = "Pour" /\ ret.ok)

UnitsOfColourInBottles(gm, c) ==
    Cardinality({p \in UnitPositions(gm) : gm.bottles[p[1]][p[2]] = c})

MustFastReject(gm) ==
    \/ \E c \in 0..(gm.K - 1) : UnitsOfColourInBottles(gm, c) % gm.M # 0
    \/ SumLen(gm.bottles) # (gm.N - gm.J) * gm.M
    \/ \A i \in 1..Len(gm.bottles) : Len(gm.bottles[i]) > 0

IsSolvableCalled == pc = "play" /\ ret'.op = "isSolvable"

C29_FastReject ==
    [][IsSolvableCalled /\ MustFastReject(g) => ~ret'.ok /\ ret'.moved = 0]_vars

(***************************************************************************)
(* C30  Scratch copies are independent of the live state: a snapshot taken *)
(* by copyGameState is not altered by any later pour on the live game,     *)
(* restoreGameState of a snapshot reproduces exactly the bottle and jar    *)
(* contents at snapshot time, and expanding a state in the solvability     *)
(* search alters neither the dequeued state nor the live game.             *)
(***************************************************************************)
LiveHeld == ContentsAll(mem.arrays, mem.live)

SnapshotHeld == ContentsAll(mem.arrays, mem.snap)

C30_ScratchIndependent ==
    /\ [](LiveHeld = g.bottles \o g.jars)
    /\ [](mem.snap # <<>> => SnapshotHeld = mem.taken)
    /\ [][ret'.op = "restoreGameState" =>
             /\ g'.bottles \o g'.jars = mem.taken
             /\ LiveHeld' = mem.taken
             /\ SnapshotHeld' = mem.taken]_vars
    /\ [][pc = "expand" /\ ret'.op = "tryPourInState" =>
             /\ ContentsAll(mem'.arrays, mem'.current)
                  = ContentsAll(mem.arrays, mem.current)
             /\ LiveHeld' = LiveHeld
             /\ g' = g]_vars

\* a snapshot that differs from the live game after pours, one of them an
\* append in place into an array of the live game
C30_Witness ==
    /\ pc = "play"
    /\ ret.op = "pourInternal"
    /\ mem.snap # <<>>
    /\ SnapshotHeld # LiveHeld
    /\ Cardinality({i \in 1..Len(LiveHeld) : LiveHeld[i] # SnapshotHeld[i]}) >= 3

(***************************************************************************)
(* C31  Every call of checkAndCollectBottles terminates: after finitely    *)
(* many passes there is a pass that retires no bottle and leaves the bags  *)
(* as they were, whatever order getAvailableColors returns the colours in. *)
(***************************************************************************)
InCollectionLoop == pc = "collect"

CollectionReturned == pc = "play" /\ ret.op = "Pour" /\ ret.ok

C31_CollectionTerminates == InCollectionLoop ~> CollectionReturned

(***************************************************************************)
(* C32  Without bag mode, every Pour, accepted or rejected, and every      *)
(* accepted backward generation step leaves the number of units of each    *)
(* colour, summed over all bottles and jars, unchanged.                    *)
(***************************************************************************)
ColoursHeld(gm) ==
    UNION {Range(gm.bottles[i]) : i \in 1..Len(gm.bottles)}
    \cup UNION {Range(gm.jars[i]) : i \in 1..Len(gm.jars)}

UnitsIn(b, c) == Cardinality({j \in 1..Len(b) : b[j] = c})

RECURSIVE UnitsOfColour(_, _)
UnitsOfColour(containers, c) ==
    IF containers = <<>> THEN 0
    ELSE UnitsIn(Head(containers), c) + UnitsOfColour(Tail(containers), c)

ColourTotal(gm, c) == UnitsOfColour(gm.bottles \o gm.jars, c)

PourOrBackwardStep ==
    /\ ~g.UseBags
    /\ \/ pc = "play" /\ ret'.op = "Pour"
       \/ pc = "reverse" /\ ret'.op = "tryReverse"

C32_ColourTotalsConserved ==
    [][PourOrBackwardStep =>
          \A c \in ColoursHeld(g) \cup ColoursHeld(g') :
             ColourTotal(g', c) = ColourTotal(g, c)]_vars

\* a game made by backward steps in which a pour has moved a unit off a
\* unit of the other colour, while a jar holds water
C32_Witness ==
    /\ pc = "play" /\ ~g.UseBags
    /\ ret.op = "Pour" /\ ret.ok
    /\ g.reverseSteps # <<>>
    /\ Cardinality(ColoursHeld(g)) = 2
    /\ \E i \in 1..Len(g.jars) : Len(g.jars[i]) > 0
    /\ \E i \in 1..Len(g.bottles) :
          Len(g.bottles[i]) = 1 /\ \E j \in 1..Len(g.bottles) :
              j # i /\ Len(g.bottles[j]) > 0 /\ Top(g.bottles[j]) # g.bottles[i][1]

(***************************************************************************)
(* C33  Regeneration is safe: generateInitialStateWithSteps called again   *)
(* on a game that already holds a generated puzzle again yields a state in *)
(* which every bottle holds at most M units, the total is (N-J)*M, and the *)
(* state replays to a won state.                                           *)
(***************************************************************************)
GenerationReturned == pc = "play" /\ ret.op = "generate" /\ ret.ok /\ ~g.UseBags

ReplaysToWon(gm) ==
    LET r == replaySteps(gm, Len(gm.reverseSteps))
    IN  r.ok /\ IsWon(r.g)

C33_RegenerationSafe ==
    GenerationReturned =>
        /\ \A i \in 1..Len(g.bottles) : Len(g.bottles[i]) <= g.M
        /\ SumLen(g.bottles) + SumLen(g.jars) = (g.N - g.J) * g.M
        /\ ReplaysToWon(g)

(***************************************************************************)
(* C34  In every reachable state, including after any number of            *)
(* AddEmptyBottle calls, the game has exactly N bottles and exactly N      *)
(* retired flags, so every container index in 0..N-1 that Pour and IsWon   *)
(* consult in bag mode has a retired flag.                                 *)
(***************************************************************************)
GameExists == pc \in {"new", "solved", "reverse", "play"}

C34_FlagPerBottle ==
    GameExists => /\ Len(g.bottles) = g.N
                  /\ Len(g.collectedBottles) = g.N

(***************************************************************************)
(* C35  Adding an empty bottle does not change whether the game is won:    *)
(* IsWon returns the same value after a successful AddEmptyBottle as       *)
(* before it.                                                              *)
(***************************************************************************)
BottleAdded == pc = "play" /\ ret'.op = "AddEmptyBottle" /\ ret'.ok

C35_AddKeepsWon ==
    [][BottleAdded /\ ~IsWonPanics(g) =>
          /\ ~IsWonPanics(g')
          /\ IsWonReturn(g') = IsWonReturn(g)]_vars

(***************************************************************************)
(* C36  ShuffleWater conserves water: for every colour, the number of      *)
(* units of that colour summed over all bottles and jars is the same after *)
(* ShuffleWater as before it, also when jars hold water at the time of the *)
(* call; bottles that were complete keep their contents and no bottle ends *)
(* with more than M units.                                                 *)
(***************************************************************************)
ShuffleCalled == pc = "play" /\ ret'.op = "ShuffleWater"

C36_ShuffleConserves ==
    [][ShuffleCalled =>
          /\ \A c \in ColoursHeld(g) \cup ColoursHeld(g') :
                ColourTotal(g', c) = ColourTotal(g, c)
          /\ \A i \in completedBottles(g) : g'.bottles[i] = g.bottles[i]
          /\ \A i \in 1..Len(g'.bottles) : Len(g'.bottles[i]) <= g.M]_vars

(***************************************************************************)
(* C37  In bag mode ShuffleWater never places units in a retired bottle:   *)
(* every bottle that was retired before the call is still empty after it.  *)
(***************************************************************************)
C37_ShuffleSparesRetired ==
    [][ShuffleCalled /\ g.UseBags =>
          \A i \in RetiredBottles(g) : g'.bottles[i] = <<>>]_vars

(***************************************************************************)
(* C38  GetPourFailureReason agrees with Pour: for every reachable state   *)
(* and every pair (from, to), GetPourFailureReason returns a specific      *)
(* reason (anything but the "unknown reason" fallback) exactly when        *)
(* Pour(from, to) would be rejected in that state, and it changes no       *)
(* state.                                                                  *)
(***************************************************************************)
SpecificReason(from, to) == GetPourFailureReason(g, from, to) # "unknown"

PourWouldBeRejected(from, to) ==
    \A r \in pourWithType(g, from, to, UserOperation) : ~r.ok

C38_ReasonAgreesWithPour ==
    /\ [](pc = "play" =>
             \A from \in Indices, to \in Indices :
                SpecificReason(from, to) <=> PourWouldBeRejected(from, to))
    /\ [][ret'.op = "GetPourFailureReason" => g' = g /\ pc' = pc]_vars

\* the fallback was returned for a pour that Pour accepts, in a state that
\* also has a pair rejected for its colours and a pair rejected for a full
\* destination
C38_Witness ==
    /\ pc = "play"
    /\ ret.op = "GetPourFailureReason" /\ ret.reason = "unknown"
    /\ \E from \in Indices, to \in Indices :
          ~SpecificReason(from, to) /\ ~PourWouldBeRejected(from, to)
    /\ \E from \in Indices, to \in Indices :
          GetPourFailureReason(g, from, to) = "color mismatch"
    /\ \E from \in Indices, to \in Indices :
          GetPourFailureReason(g, from, to) = "target full"

(***************************************************************************)
(* C39  In bag mode, after generation and after every user pour, the       *)
(* active collectors are bound to pairwise different colours and each      *)
(* bound colour occurs in some non-retired bottle or in a jar.             *)
(***************************************************************************)
BoundColourHeld(gm, c) ==
    \/ \E i \in 1..Len(gm.bottles) :
          ~gm.collectedBottles[i] /\ \E j \in 1..Len(gm.bottles[i]) : gm.bottles[i][j] = c
    \/ \E i \in 1..Len(gm.jars) : \E j \in 1..Len(gm.jars[i]) : gm.jars[i][j] = c

AfterGenerationOrPour ==
    /\ pc = "play" /\ g.UseBags
    /\ ret.op \in {"generate", "Pour"}

C39_BagsDistinctAndHeld ==
    AfterGenerationOrPour =>
        /\ \A i, j \in ActiveSlots(g) : g.bags[i] = g.bags[j] => i = j
        /\ \A i \in ActiveSlots(g) : BoundColourHeld(g, g.bags[i])

\* a pour whose collection step retired a bottle and left two bags bound
C39_Witness ==
    /\ AfterGenerationOrPour
    /\ ret.op = "Pour" /\ ret.ok
    /\ \E i \in 1..Len(g.bottles) : g.collectedBottles[i]
    /\ Cardinality(ActiveSlots(g)) = 2

====
